---- MODULE Spec2Model ----
(***************************************************************************)
(* A model of the AutoPO purchase-order pipeline (andresuchdata/autopo-py). *)
(*                                                                         *)
(*   SpecBatch   POProcessor.process_files and po_calculator.compute_outputs*)
(*               over one batch of store files.                            *)
(*   SpecRun     RunExecutor.execute called by several callers on one run. *)
(*   SpecRunFair SpecRun where a call that has passed the status check     *)
(*               runs on to its end.                                       *)
(*   SpecProc    two /process requests over the shared upload and output   *)
(*               directories.                                              *)
(*   SpecCoerce  the numeric coercion of clean_po_data on one column.      *)
(*   SpecMetrics one row through clean_po_data, the metrics engine and the *)
(*               response of process_files.                                *)
(*   SpecNames   the store name extracted from a file name, by both    *)
(*               extractors.                                               *)
(*   SpecRefs    loading the supplier and contribution files and the      *)
(*               contribution lookup, in both implementations.            *)
(*   SpecOverride the reference-store override of clean_po_data on one    *)
(*               row, in both implementations.                            *)
(*   SpecColumns the column selection and padding of clean_po_data, in    *)
(*               both implementations.                                    *)
(*   SpecSuppliers merge_with_suppliers on the rows of one file, in the   *)
(*               two implementations and the notebook.                    *)
(*                                                                         *)
(* Every specification is a state machine over the same variables; the     *)
(* variables of the parts a specification does not move keep their idle    *)
(* value.                                                                  *)
(***************************************************************************)
EXTENDS Integers, Sequences, FiniteSets, TLC

VARIABLES
    \* ---- the batch of store files handed to the pipeline
    batch,            \* Seq of [fate, rows]: the i-th file is named FileName(i)
    \* ---- POProcessor.process_files
    pf_i,             \* index of the next filename of the for loop
    processed_data,   \* list of per-file frames
    errors,           \* list of error strings
    pf_result,        \* the returned dict, or NoResult while running
    \* ---- po_calculator.compute_outputs
    co_i,             \* index of the next store_file of the for loop
    outputs,          \* list of (label, frame)
    co_result,        \* NoResult while running, then returned / raised
    \* ---- the job-record store (run_service.py): one Run and its POResults
    run_status,       \* Run.status as committed
    run_note,         \* Run.note as committed
    run_refs,         \* TRUE iff the run names its supplier and contribution uploads
    results,          \* the committed POResult rows of the run, in insertion order
    drive,            \* how GoogleDriveClient() behaves in this deployment
    exec,             \* per execute call: its position and its session's pending rows
    \* ---- the /process route (api/routes/po.py) and the directories it shares
    fs,               \* path -> the request whose bytes the file holds (0: no file)
    writers,          \* path -> the requests that have written it so far
    req,              \* per /process request: its upload and its position
    \* ---- numeric coercion of one column (clean_po_data)
    cell_pc,          \* "idle", "input", "coerced", "again"
    cell_column,      \* the cells of the column, each a sequence of characters
    cell_values,      \* the column after the coercion
    cell_again,       \* the coercion of the textual form of cell_values
    \* ---- one row through clean_po_data and calculate_inventory_metrics
    m_pc,             \* "idle", "raw", "clean", "done", "raised", "sent"
    m_raw,            \* the row as read: column label -> cell text
    m_row,            \* the row as a frame: column -> number
    m_out,            \* the row in the response of process_files
    \* ---- the store name of an uploaded file
    sn_pc,            \* "idle", "file", "process_files", "create_run"
    sn_file,          \* the file name, a sequence of characters
    sn_store,         \* the store name extracted
    \* ---- the reference files of a batch and the contribution lookup
    rf_pc,            \* "idle", "files", "loaded", "aborted", "looked"
    rf_by,            \* "process_files" or "compute_outputs"
    rf_supplier,      \* the supplier file: missing, malformed or readable
    rf_contrib,       \* the contribution file: its kind and its rows
    rf_table,         \* store_contrib as loaded
    rf_location,      \* the store looked up
    rf_pct,           \* the contribution percentage returned
    \* ---- the reference-store override of clean_po_data on one row
    ov_pc,            \* "idle", "in", "process_files", "compute_outputs"
    ov_in,            \* location, contribution_pct, the row, padang_sales
    ov_out,           \* the rows clean_po_data returns for the row
    \* ---- the columns of one store file through clean_po_data
    col_pc,           \* "idle", "in", "process_files", "compute_outputs"
    col_in,           \* the columns the file has, and whether padang_sales is given
    col_out,          \* the outcome and what each column of the cleaned frame holds
    \* ---- the rows of one store file through merge_with_suppliers
    sup_pc,           \* "idle", "in", "process_files", "compute_outputs", "notebook"
    sup_in,           \* the rows of df_clean and the supplier catalog
    sup_out           \* the rows of the merged frame

batchVars == <<batch, pf_i, processed_data, errors, pf_result, co_i, outputs, co_result>>

runVars == <<run_status, run_note, run_refs, results, drive, exec>>

procVars == <<fs, writers, req>>

cellVars == <<cell_pc, cell_column, cell_values, cell_again>>

rowVars == <<m_pc, m_raw, m_row, m_out>>

nameVars == <<sn_pc, sn_file, sn_store>>

refVars == <<rf_pc, rf_by, rf_supplier, rf_contrib, rf_table, rf_location, rf_pct>>

ovVars == <<ov_pc, ov_in, ov_out>>

colVars == <<col_pc, col_in, col_out>>

supVars == <<sup_pc, sup_in, sup_out>>

vars == <<batchVars, runVars, procVars, cellVars, rowVars, nameVars, refVars, ovVars, colVars, supVars>>

\* What the actions of each part leave alone.
notBatch == <<runVars, procVars, cellVars, rowVars, nameVars, refVars, ovVars, colVars, supVars>>

notRun == <<batchVars, procVars, cellVars, rowVars, nameVars, refVars, ovVars, colVars, supVars>>

notProc == <<batchVars, runVars, cellVars, rowVars, nameVars, refVars, ovVars, colVars, supVars>>

notCell == <<batchVars, runVars, procVars, rowVars, nameVars, refVars, ovVars, colVars, supVars>>

notRow == <<batchVars, runVars, procVars, cellVars, nameVars, refVars, ovVars, colVars, supVars>>

notName == <<batchVars, runVars, procVars, cellVars, rowVars, refVars, ovVars, colVars, supVars>>

notRef == <<batchVars, runVars, procVars, cellVars, rowVars, nameVars, ovVars, colVars, supVars>>

notOv == <<batchVars, runVars, procVars, cellVars, rowVars, nameVars, refVars, colVars, supVars>>

notCol == <<batchVars, runVars, procVars, cellVars, rowVars, nameVars, refVars, ovVars, supVars>>

notSup == <<batchVars, runVars, procVars, cellVars, rowVars, nameVars, refVars, ovVars, colVars>>

NoResult == [status |-> "running"]

Idle == [status |-> "idle"]

(***************************************************************************)
(* Bounds.                                                                 *)
(***************************************************************************)
MaxFiles == 3
MaxRows == 2
MaxStores == 2      \* store uploads of the run
MaxCalls == 2       \* execute calls on the run
MaxUpload == 1      \* store files of one /process request
MaxCellLen == 6     \* characters of a cell drawn from CellAlphabet
MaxColLen == 2      \* cells of a column drawn from SampleCells
MaxTable == 2       \* rows of the store contribution table
MaxRef == 2         \* rows of the reference-store sales file
MaxCatalog == 2     \* records of the supplier catalog

(***************************************************************************)
(* Sequence helpers.                                                       *)
(***************************************************************************)
Range(s) == {s[k] : k \in DOMAIN s}

RECURSIVE FlattenSeq(_)
FlattenSeq(ss) == IF ss = <<>> THEN <<>> ELSE Head(ss) \o FlattenSeq(Tail(ss))

SeqsUpTo(S, n) == UNION {[1..k -> S] : k \in 0..n}

(***************************************************************************)
(* The batch.  What a store file holds is abstracted to its fate: the      *)
(* stage of the per-file pipeline at which it fails, if any, and the       *)
(* number of rows it yields otherwise.                                     *)
(*   reference   the name is supplier_data.csv / store_contribution.csv    *)
(*   missing     upload_dir / filename does not exist                      *)
(*   unreadable  no (separator, encoding) pair reads it, or it is empty    *)
(*   clean       clean_po_data fails (missing column, bad reference data)  *)
(*   merge       merge_with_suppliers raises                               *)
(*   metrics     calculate_inventory_metrics raises                        *)
(***************************************************************************)
Fates == {"ok", "reference", "missing", "unreadable", "clean", "merge", "metrics"}

FailFates == {"unreadable", "clean", "merge", "metrics"}

Files == [fate : Fates \ {"ok"}, rows : {0}] \cup [fate : {"ok"}, rows : 1..MaxRows]

FileName(i) == "store" \o ToString(i) \o ".csv"

\* DataFrame of one processed file: its rows, tagged with 'Source File'.
Frame(i, n) == [k \in 1..n |-> [source |-> FileName(i), row |-> k]]

(***************************************************************************)
(* POProcessor.process_files                                               *)
(***************************************************************************)
\* f"{filename}: {text}"
ErrorString(i, text) == FileName(i) \o ": " \o text

\* '; '.join(errors), as the sequence of the strings it concatenates
RECURSIVE JoinErrors(_)
JoinErrors(es) ==
    IF es = <<>> THEN <<>>
    ELSE IF Len(es) = 1 THEN <<es[1]>>
    ELSE <<es[1], "; ">> \o JoinErrors(Tail(es))

\* f"No data processed. Errors: {'; '.join(errors)}"
ErrorMessageDropsErrors(es) == <<"No data processed. Errors: ">>

ErrorMessage(es) == <<"No data processed. Errors: ">> \o JoinErrors(es)

\* The text process_files records for a file that fails at a given stage.
ErrorText(fate) ==
    CASE fate = "unreadable" -> "Failed to read or empty"
      [] fate = "clean" -> "Cleaning failed"
      [] fate = "merge" -> "merge_with_suppliers raised"
      [] fate = "metrics" -> "calculate_inventory_metrics raised"

\* errors.append(f"{filename}: ...") in the body of `for filename in filenames`.
PFRecord(i, es) == Append(es, ErrorString(i, ErrorText(batch[i].fate)))

PFFile ==
    /\ pf_result = NoResult
    /\ pf_i <= Len(batch)
    /\ LET f == batch[pf_i] IN
        \/ /\ f.fate \in {"reference", "missing"}          \* continue
           /\ UNCHANGED <<processed_data, errors>>
        \/ /\ f.fate \in FailFates                          \* errors.append(...)
           /\ errors' = PFRecord(pf_i, errors)
           /\ UNCHANGED processed_data
        \/ /\ f.fate = "ok"                                 \* processed_data.append(final_df)
           /\ processed_data' = Append(processed_data, Frame(pf_i, f.rows))
           /\ UNCHANGED errors
    /\ pf_i' = pf_i + 1
    /\ UNCHANGED <<batch, pf_result, co_i, outputs, co_result>>
    /\ UNCHANGED notBatch

\* What process_files returns once the loop is over.
PFReturn(pd, es) ==
    IF pd = <<>>
    THEN [status |-> "error", data |-> <<>>, message |-> ErrorMessage(es)]
    ELSE [status |-> "success", data |-> FlattenSeq(pd), message |-> <<>>]

PFFinish ==
    /\ pf_result = NoResult
    /\ pf_i > Len(batch)
    /\ pf_result' = PFReturn(processed_data, errors)
    /\ UNCHANGED <<batch, pf_i, processed_data, errors, co_i, outputs, co_result>>
    /\ UNCHANGED notBatch

(***************************************************************************)
(* po_calculator.compute_outputs: process_po_file is called for each       *)
(* store_file with no exception handler around it.                         *)
(***************************************************************************)
\* process_po_file raises for this file: read_csv_file raises ValueError when
\* no format reads it, clean_po_data raises on a missing Brand column (as for
\* a reference file passed as a store file), and nothing is caught.
PORaises(f) == f.fate # "ok"

COFile ==
    /\ co_result = NoResult
    /\ co_i <= Len(batch)
    /\ ~PORaises(batch[co_i])
    /\ outputs' = Append(outputs, Frame(co_i, batch[co_i].rows))
    /\ co_i' = co_i + 1
    /\ UNCHANGED <<batch, pf_i, processed_data, errors, pf_result, co_result>>
    /\ UNCHANGED notBatch

CORaise ==
    /\ co_result = NoResult
    /\ co_i <= Len(batch)
    /\ PORaises(batch[co_i])
    /\ co_result' = [status |-> "raised", file |-> FileName(co_i), data |-> <<>>]
    /\ UNCHANGED <<batch, pf_i, processed_data, errors, pf_result, co_i, outputs>>
    /\ UNCHANGED notBatch

COReturn ==
    /\ co_result = NoResult
    /\ co_i > Len(batch)
    /\ co_result' = [status |-> "returned", file |-> "", data |-> FlattenSeq(outputs)]
    /\ UNCHANGED <<batch, pf_i, processed_data, errors, pf_result, co_i, outputs>>
    /\ UNCHANGED notBatch

\* The /process route's answer for what process_files returned.
ProcessPoResponse(result) ==
    IF result.status = "error"
    THEN [code |-> 500, message |-> result.message, data |-> <<>>]
    ELSE [code |-> 200, message |-> <<>>, data |-> result.data]

BatchInit ==
    /\ batch \in SeqsUpTo(Files, MaxFiles)
    /\ pf_i = 1
    /\ processed_data = <<>>
    /\ errors = <<>>
    /\ pf_result = NoResult
    /\ co_i = 1
    /\ outputs = <<>>
    /\ co_result = NoResult

BatchNext == PFFile \/ PFFinish \/ COFile \/ CORaise \/ COReturn

(***************************************************************************)
(* RunExecutor.execute (run_service.py).  Every call has its own session:  *)
(* rows it adds are pending until its next commit, which writes them and   *)
(* the run's fields at once.  The run's store uploads are `batch`.         *)
(***************************************************************************)
Calls == 1..MaxCalls

Variants == <<"complete", "m2", "emergency">>

\* GoogleDriveClient(): raises GoogleDriveNotConfigured without a credentials
\* setting, another exception when the credentials file cannot be loaded.
DriveKinds == {"not_configured", "bad_credentials", "configured"}

RunFiles == [fate : {"ok"}, rows : {1}] \cup [fate : {"unreadable"}, rows : {0}]

StoreName(i) == "STORE" \o ToString(i)

IdleCall == [pc |-> "idle", k |-> 0, pending |-> <<>>, exc |-> ""]

\* compute_outputs raises as soon as process_po_file raises for one file.
ComputeOutputsRaises(b) == \E i \in DOMAIN b : PORaises(b[i])

\* POResult(run_id, store_name, variant, local_path, drive_url, ...)
POResult(i, v, url) == [store_name |-> StoreName(i), variant |-> Variants[v], drive_url |-> url]

\* execute, lines 112-116: load the run, refuse when it is RUNNING.
ExecuteCheckRejects(status) == status = "running"

ExecuteCheck(c) ==
    /\ c \in DOMAIN exec
    /\ exec[c].pc = "idle"
    /\ exec' = [exec EXCEPT ![c].pc =
                    IF ExecuteCheckRejects(run_status) THEN "rejected" ELSE "checked"]
    /\ UNCHANGED <<run_status, run_note, run_refs, results, drive>>
    /\ UNCHANGED notRun

\* execute, lines 118-121: status = RUNNING, commit.
ExecuteMarkRunning(c) ==
    /\ c \in DOMAIN exec
    /\ exec[c].pc = "checked"
    /\ run_status' = "running"
    /\ exec' = [exec EXCEPT ![c].pc = "started"]
    /\ UNCHANGED <<run_note, run_refs, results, drive>>
    /\ UNCHANGED notRun

\* an execute without the handler: the exception leaves the run as it is
FailUnhandled(c, pending, exc) ==
    /\ UNCHANGED <<run_status, run_note, results>>
    /\ exec' = [exec EXCEPT ![c] = [pc |-> "raised", k |-> @.k, pending |-> <<>>, exc |-> exc]]

\* execute, lines 125-131: the handler of any exception of _execute_run.  The
\* commit writes the run's fields and whatever the session holds pending.
Fail(c, pending, exc) ==
    /\ run_status' = "failed"
    /\ run_note' = "Run failed: " \o exc
    /\ results' = results \o pending
    /\ exec' = [exec EXCEPT ![c] = [pc |-> "raised", k |-> @.k, pending |-> <<>>, exc |-> exc]]

\* _execute_run, lines 134-158: the steps before the loop over the outputs.
\* The exception they raise, or "" when they raise none.
DriveSetupError(d) ==
    IF d = "bad_credentials" THEN "credentials file cannot be loaded" ELSE ""

PrepareError ==
    IF ~run_refs THEN "400: Run requires supplier and store contribution files"
    ELSE IF batch = <<>> THEN "400: Run has no store uploads"
    ELSE IF ComputeOutputsRaises(batch) THEN "compute_outputs raised"
    ELSE DriveSetupError(drive)

ExecutePrepare(c) ==
    /\ c \in DOMAIN exec
    /\ exec[c].pc = "started"
    /\ IF PrepareError # ""
       THEN Fail(c, exec[c].pending, PrepareError)
       ELSE /\ exec' = [exec EXCEPT ![c].pc = "saving", ![c].k = 1]
            /\ UNCHANGED <<run_status, run_note, results>>
    /\ UNCHANGED <<run_refs, drive>>
    /\ UNCHANGED notRun

\* _execute_run, lines 160-187: one iteration of `for label, merged_df,
\* summary in outputs`.  Without a client no upload is tried; with one, the
\* upload of variant `bad` raises RuntimeError (bad = 0: none does).
UploadOutcomes(d) == IF d = "configured" THEN 0..Len(Variants) ELSE {0}

DriveUrl(d) == IF d = "configured" THEN "link" ELSE "none"

Added(i, n) == [v \in 1..n |-> POResult(i, v, DriveUrl(drive))]

ExecuteStore(c) ==
    /\ c \in DOMAIN exec
    /\ exec[c].pc = "saving"
    /\ exec[c].k <= Len(batch)
    /\ \E bad \in UploadOutcomes(drive) :
         IF bad = 0
         THEN /\ exec' = [exec EXCEPT ![c].k = @ + 1,
                                      ![c].pending = @ \o Added(exec[c].k, Len(Variants))]
              /\ UNCHANGED <<run_status, run_note, results>>
         ELSE Fail(c, exec[c].pending \o Added(exec[c].k, bad - 1),
                   "Google Drive upload failed")
    /\ UNCHANGED <<run_refs, drive>>
    /\ UNCHANGED notRun

\* _execute_run, lines 189-194: status = READY, note, commit.
ExecuteFinish(c) ==
    /\ c \in DOMAIN exec
    /\ exec[c].pc = "saving"
    /\ exec[c].k > Len(batch)
    /\ run_status' = "ready"
    /\ run_note' = "Processed " \o ToString(Len(batch)) \o " stores"
    /\ results' = results \o exec[c].pending
    /\ exec' = [exec EXCEPT ![c].pc = "done", ![c].pending = <<>>]
    /\ UNCHANGED <<run_refs, drive>>
    /\ UNCHANGED notRun

\* Neither batch operation is running.
BatchIdle ==
    /\ pf_i = 1
    /\ processed_data = <<>>
    /\ errors = <<>>
    /\ pf_result = Idle
    /\ co_i = 1
    /\ outputs = <<>>
    /\ co_result = Idle

\* No run, and nobody calls execute.
RunIdle ==
    /\ run_status = "pending"
    /\ run_note = ""
    /\ run_refs = TRUE
    /\ results = <<>>
    /\ drive = "not_configured"
    /\ exec = <<>>

RunInit ==
    /\ batch \in SeqsUpTo(RunFiles, MaxStores)
    /\ BatchIdle
    /\ run_status = "pending"
    /\ run_note = ""
    /\ run_refs \in BOOLEAN
    /\ results = <<>>
    /\ drive \in DriveKinds
    /\ exec = [c \in Calls |-> IdleCall]

RunNext ==
    \E c \in Calls :
        \/ ExecuteCheck(c)
        \/ ExecuteMarkRunning(c)
        \/ ExecutePrepare(c)
        \/ ExecuteStore(c)
        \/ ExecuteFinish(c)

(***************************************************************************)
(* The /process route, process_po (api/routes/po.py).  `processor` is one  *)
(* module-level POProcessor: every request saves into the same upload_dir  *)
(* under the client's file names and two fixed names, and process_files    *)
(* writes the same output_dir/result.csv.  The steps below are the file    *)
(* operations of one request; requests served by different worker          *)
(* processes interleave between them.                                      *)
(***************************************************************************)
Reqs == {1, 2}

StoreFileNames == {"1. Miss Glam Padang.csv", "2. Miss Glam Soeta.csv"}

SupplierPath == "supplier_data.csv"

ContribPath == "store_contribution.csv"

ResultPath == "result.csv"

Paths == StoreFileNames \cup {SupplierPath, ContribPath, ResultPath}

Uploads ==
    [files : UNION {[1..n -> StoreFileNames] : n \in 1..MaxUpload},
     supplier_file : BOOLEAN, contribution_file : BOOLEAN]

\* f.open("wb"); shutil.copyfileobj(...)
WriteFile(r, path) ==
    /\ fs' = [fs EXCEPT ![path] = r]
    /\ writers' = [writers EXCEPT ![path] = @ \cup {r}]

\* po.py lines 35-39: save the next uploaded store file under its own name.
SaveStoreFile(r) ==
    /\ r \in DOMAIN req
    /\ req[r].pc = "files"
    /\ req[r].k <= Len(req[r].up.files)
    /\ WriteFile(r, req[r].up.files[req[r].k])
    /\ req' = [req EXCEPT ![r].k = @ + 1]
    /\ UNCHANGED notProc

\* po.py lines 41-46: save the supplier file as supplier_data.csv, if given.
SaveSupplier(r) ==
    /\ r \in DOMAIN req
    /\ req[r].pc = "files"
    /\ req[r].k > Len(req[r].up.files)
    /\ IF req[r].up.supplier_file
       THEN WriteFile(r, SupplierPath)
       ELSE UNCHANGED <<fs, writers>>
    /\ req' = [req EXCEPT ![r].pc = "contribution"]
    /\ UNCHANGED notProc

\* po.py lines 48-52: save the contribution file as store_contribution.csv.
SaveContribution(r) ==
    /\ r \in DOMAIN req
    /\ req[r].pc = "contribution"
    /\ IF req[r].up.contribution_file
       THEN WriteFile(r, ContribPath)
       ELSE UNCHANGED <<fs, writers>>
    /\ req' = [req EXCEPT ![r].pc = "process"]
    /\ UNCHANGED notProc

\* The files process_files(saved_filenames, supplier_path) reads: the supplier
\* file when a path is given and exists, store_contribution.csv when that
\* name is among `filenames`, and every store file that exists.
FilesRead(up) ==
    {f \in Range(up.files) : f \notin {SupplierPath, ContribPath} /\ fs[f] # 0}
        \cup (IF up.supplier_file /\ fs[SupplierPath] # 0 THEN {SupplierPath} ELSE {})
        \cup (IF ContribPath \in Range(up.files) THEN {ContribPath} ELSE {})

\* po.py line 55 and process_files: read the inputs, write result.csv, answer.
\* `used` keeps whose bytes each file read held.
ProcessFiles(r) ==
    /\ r \in DOMAIN req
    /\ req[r].pc = "process"
    /\ req' = [req EXCEPT ![r].pc = "done",
                          ![r].used = {<<f, fs[f]>> : f \in FilesRead(req[r].up)}]
    /\ WriteFile(r, ResultPath)
    /\ UNCHANGED notProc

ProcIdle ==
    /\ fs = [p \in Paths |-> 0]
    /\ writers = [p \in Paths |-> {}]
    /\ req = <<>>

ProcInit ==
    /\ fs = [p \in Paths |-> 0]
    /\ writers = [p \in Paths |-> {}]
    /\ req \in [Reqs -> [up : Uploads, pc : {"files"}, k : {1}, used : {{}}]]

ProcNext ==
    \E r \in Reqs :
        \/ SaveStoreFile(r)
        \/ SaveSupplier(r)
        \/ SaveContribution(r)
        \/ ProcessFiles(r)

(***************************************************************************)
(* Numeric coercion, POProcessor.clean_po_data lines 203-229.  A cell is   *)
(* its text, a sequence of characters, as read_excel with dtype=str hands  *)
(* it over.  A number is a decimal fraction                                *)
(* [m, e] standing for m / 10^e, with e as small as possible; the values   *)
(* within the bounds are all exact as floats, and the sign of zero is not  *)
(* kept.                                                                   *)
(***************************************************************************)
Digits == <<"0", "1", "2", "3", "4", "5", "6", "7", "8", "9">>

LowerCase == <<"a", "b", "c", "d", "e", "f", "g", "h", "i", "j", "k", "l", "m",
               "n", "o", "p", "q", "r", "s", "t", "u", "v", "w", "x", "y", "z">>

UpperCase == <<"A", "B", "C", "D", "E", "F", "G", "H", "I", "J", "K", "L", "M",
               "N", "O", "P", "Q", "R", "S", "T", "U", "V", "W", "X", "Y", "Z">>

IsDigit(c) == \E k \in DOMAIN Digits : Digits[k] = c

DigitVal(c) == (CHOOSE k \in DOMAIN Digits : Digits[k] = c) - 1

\* str.upper() on one character
Upper(c) ==
    IF \E k \in DOMAIN LowerCase : LowerCase[k] = c
    THEN UpperCase[CHOOSE k \in DOMAIN LowerCase : LowerCase[k] = c]
    ELSE c

\* .replace(['NAN', 'INF', '-INF', 'NONE', 'NULL'], '0') matches whole cells
Sentinels ==
    {<<"N", "A", "N">>, <<"I", "N", "F">>, <<"-", "I", "N", "F">>,
     <<"N", "O", "N", "E">>, <<"N", "U", "L", "L">>}

\* the characters r'[^\d.,-]' leaves
Kept(c) == IsDigit(c) \/ c \in {".", ",", "-"}

CommaToPoint(c) == IF c = "," THEN "." ELSE c

\* lines 216-223: the text handed to astype(float)
CleanText(cell) ==
    LET upper == [k \in DOMAIN cell |-> Upper(cell[k])]
        named == IF upper \in Sentinels THEN <<"0">> ELSE upper
        kept == SelectSeq(named, Kept)
        pointed == [k \in DOMAIN kept |-> CommaToPoint(kept[k])]
    IN IF pointed = <<>> THEN <<"0">> ELSE pointed

\* float(text) succeeds, for a text of digits, points and minus signs: an
\* optional leading minus, then digits with at most one point among them.
Unsigned(t) == IF t # <<>> /\ Head(t) = "-" THEN Tail(t) ELSE t

ParsesAsFloat(t) ==
    LET u == Unsigned(t) IN
    /\ \A k \in DOMAIN u : u[k] # "-"
    /\ Cardinality({k \in DOMAIN u : u[k] = "."}) <= 1
    /\ \E k \in DOMAIN u : IsDigit(u[k])

RECURSIVE DigitsValue(_)
DigitsValue(ds) ==
    IF ds = <<>> THEN 0 ELSE 10 * DigitsValue(SubSeq(ds, 1, Len(ds) - 1)) + DigitVal(ds[Len(ds)])

RECURSIVE Pow10(_)
Pow10(k) == IF k = 0 THEN 1 ELSE 10 * Pow10(k - 1)

\* the decimal m / 10^e with trailing zeros of the fraction dropped
RECURSIVE Dec(_, _)
Dec(m, e) == IF e > 0 /\ m % 10 = 0 THEN Dec(m \div 10, e - 1) ELSE [m |-> m, e |-> e]

Zero == [m |-> 0, e |-> 0]

\* float(text) for a text that parses
ParseFloat(t) ==
    LET u == Unsigned(t)
        point == IF \E k \in DOMAIN u : u[k] = "."
                 THEN CHOOSE k \in DOMAIN u : u[k] = "." ELSE Len(u) + 1
        digits == SelectSeq(u, IsDigit)
        frac == IF point > Len(u) THEN 0 ELSE Len(u) - point
        value == DigitsValue(digits)
    IN Dec(IF Head(t) = "-" THEN -value ELSE value, frac)

\* lines 205-229 on one column: astype(float) raises for the whole column as
\* soon as one cell does not parse, and the handler sets the column to 0.
CoerceColumn(col) ==
    IF \A k \in DOMAIN col : ParsesAsFloat(CleanText(col[k]))
    THEN [k \in DOMAIN col |-> ParseFloat(CleanText(col[k]))]
    ELSE [k \in DOMAIN col |-> Zero]

\* The text of a float, as str() and astype(str) give it: the shortest digits,
\* in exponent form when the decimal exponent is below -4 or at least 16.
RECURSIVE DigitsOf(_)
DigitsOf(n) == IF n < 10 THEN <<Digits[n + 1]>> ELSE Append(DigitsOf(n \div 10), Digits[(n % 10) + 1])

RECURSIVE StripZeros(_)
StripZeros(ds) ==
    IF Len(ds) > 1 /\ ds[Len(ds)] = "0" THEN StripZeros(SubSeq(ds, 1, Len(ds) - 1)) ELSE ds

Zeros(n) == [k \in 1..n |-> "0"]

Abs(n) == IF n < 0 THEN -n ELSE n

FloatStr(x) ==
    LET ds == DigitsOf(Abs(x.m))
        len == Len(ds)
        exp == len - 1 - x.e
        sign == IF x.m < 0 THEN <<"-">> ELSE <<>>
        sig == StripZeros(ds)
        expDigits == IF Abs(exp) < 10 THEN <<"0">> \o DigitsOf(Abs(exp)) ELSE DigitsOf(Abs(exp))
    IN IF x.m = 0 THEN <<"0", ".", "0">>
       ELSE IF exp < -4 \/ exp >= 16
       THEN sign \o <<Head(sig)>> \o (IF Len(sig) > 1 THEN <<".">> \o Tail(sig) ELSE <<>>)
                 \o <<"e", IF exp < 0 THEN "-" ELSE "+">> \o expDigits
       ELSE IF x.e = 0 THEN sign \o ds \o <<".", "0">>
       ELSE IF len > x.e THEN sign \o SubSeq(ds, 1, len - x.e) \o <<".">> \o SubSeq(ds, len - x.e + 1, len)
       ELSE sign \o <<"0", ".">> \o Zeros(x.e - len) \o ds

\* The cells the model draws: every text of the characters the coercion keeps,
\* up to MaxCellLen, alone in its column; and columns of the sample cells.
CellAlphabet == {"0", "1", ".", ",", "-"}

SampleCells ==
    {<<>>, <<"1">>, <<"1", ",", "5">>, <<"-", "2">>, <<"n", "a", "n">>, <<"N", "o", "n", "e">>,
     <<"-", "i", "n", "f">>, <<"R", "p", " ", "1", "0">>, <<"1", ".", "2", "3", "4", ",", "5", "6">>,
     <<"#", "N", "/", "A">>, <<"1", "e", "5">>}

Columns ==
    {<<c>> : c \in SeqsUpTo(CellAlphabet, MaxCellLen)} \cup SeqsUpTo(SampleCells, MaxColLen)

\* clean_po_data's loop body for one numeric column
Coerce ==
    /\ cell_pc = "input"
    /\ cell_values' = CoerceColumn(cell_column)
    /\ cell_pc' = "coerced"
    /\ UNCHANGED <<cell_column, cell_again>>
    /\ UNCHANGED notCell

\* the same on the column of the texts of the coerced values
CoerceAgain ==
    /\ cell_pc = "coerced"
    /\ cell_again' = CoerceColumn([k \in DOMAIN cell_values |-> FloatStr(cell_values[k])])
    /\ cell_pc' = "again"
    /\ UNCHANGED <<cell_column, cell_values>>
    /\ UNCHANGED notCell

CellIdle ==
    /\ cell_pc = "idle"
    /\ cell_column = <<>>
    /\ cell_values = <<>>
    /\ cell_again = <<>>

CellInit ==
    /\ cell_pc = "input"
    /\ cell_column \in Columns
    /\ cell_values = <<>>
    /\ cell_again = <<>>

CellNext == Coerce \/ CoerceAgain

(***************************************************************************)
(* The numbers of a frame.  A float is the fraction [n, d] in lowest terms *)
(* with d > 0; d = 0 stands for the values that are not finite: n = 1      *)
(* is inf, n = -1 is -inf, n = 0 is NaN.  The cells drawn below are        *)
(* dyadic, so that float arithmetic on them is exact and the fractions     *)
(* are the floats the program computes.                                    *)
(***************************************************************************)
RECURSIVE GCD(_, _)
GCD(a, b) == IF b = 0 THEN a ELSE GCD(b, a % b)

Sign(n) == IF n > 0 THEN 1 ELSE IF n < 0 THEN -1 ELSE 0

Norm(n, d) ==
    IF d = 0 THEN [n |-> Sign(n), d |-> 0]
    ELSE LET g == GCD(Abs(n), Abs(d))
         IN [n |-> Sign(d) * (n \div g), d |-> Abs(d) \div g]

R(k) == [n |-> k, d |-> 1]

Z == R(0)

NaN == [n |-> 0, d |-> 0]

Inf == [n |-> 1, d |-> 0]

IsNaN(x) == x.d = 0 /\ x.n = 0

IsInf(x) == x.d = 0 /\ x.n # 0

Finite(x) == x.d # 0

FromDec(x) == Norm(x.m, Pow10(x.e))

Mul(x, y) == Norm(x.n * y.n, x.d * y.d)

Add(x, y) ==
    IF x.d = 0 /\ y.d = 0
    THEN (IF x.n = y.n THEN x ELSE NaN)
    ELSE Norm(x.n * y.d + y.n * x.d, x.d * y.d)

Neg(x) == [n |-> -x.n, d |-> x.d]

Sub(x, y) == Add(x, Neg(y))

\* x / y of floats: a finite x over 0 is +-inf, 0 / 0 is NaN
Div(x, y) ==
    IF x.d = 0 /\ y.d = 0 THEN NaN
    ELSE IF y.d = 0 THEN (IF IsNaN(y) THEN NaN ELSE Z)
    ELSE Norm(x.n * y.d, x.d * y.n)

\* comparisons are false on NaN
Less(x, y) ==
    /\ ~IsNaN(x) /\ ~IsNaN(y)
    /\ IF x.d = 0 /\ y.d = 0 THEN x.n < y.n ELSE x.n * y.d < y.n * x.d

Leq(x, y) ==
    /\ ~IsNaN(x) /\ ~IsNaN(y)
    /\ IF x.d = 0 /\ y.d = 0 THEN x.n <= y.n ELSE x.n * y.d <= y.n * x.d

\* np.ceil
Ceil(x) == IF x.d = 0 THEN x ELSE R(-((-x.n) \div x.d))

\* .fillna(0)
FillNa(x) == IF IsNaN(x) THEN Z ELSE x

\* .replace([np.inf, -np.inf], 0)
ReplaceInf(x) == IF IsInf(x) THEN Z ELSE x

\* .clip(lower=0): NaN stays
ClipLower(x) == IF Less(x, Z) THEN Z ELSE x

\* np.maximum(0, x): NaN stays
Maximum0(x) == IF Less(x, Z) THEN Z ELSE x

\* .astype(int) of a finite float truncates toward zero
AsInt(x) == IF x.n >= 0 THEN R(x.n \div x.d) ELSE R(-((-x.n) \div x.d))

\* .round(2): to the nearest hundredth, halves to the even one
Round2(x) ==
    IF x.d = 0 THEN x
    ELSE LET h == Mul(x, R(100))
             lo == h.n \div h.d
             rest == Norm(h.n - lo * h.d, h.d)
             up == \/ Less(R(1), Mul(rest, R(2)))
                   \/ (Mul(rest, R(2)) = R(1) /\ lo % 2 = 1)
         IN Norm(IF up THEN lo + 1 ELSE lo, 100)

(***************************************************************************)
(* One row through POProcessor.clean_po_data (no Padang reference, so no   *)
(* override), POProcessor.calculate_inventory_metrics and the response of  *)
(* POProcessor.process_files.  A frame row is a function from column       *)
(* names to numbers.                                                       *)
(***************************************************************************)
StockLabels == {"Stok", "Stock"}

\* po_processor.py line 197: numeric_columns
NumericColumns ==
    {"Stok", "Stock", "Daily Sales", "Max. Daily Sales", "Lead Time",
     "Max. Lead Time", "Sedang PO", "HPP", "Min. Order"}

DefaultLeadTimeSedangPO == 5

CoverDays == 30

\* the cell texts drawn for each column of the uploaded row
StockCells == {<<"1", "0">>, <<"3", "0">>, <<"2", "9">>, <<"0">>}

DailySalesCells == {<<"1">>, <<"0">>, <<"0", ",", "5">>, <<"N", "A", "N">>}

MaxDailySalesCells == {<<"2">>, <<"3">>, <<"0">>}

LeadTimeCells == {<<"5">>, <<"0">>}

MaxLeadTimeCells == {<<"1", "0">>, <<"0">>}

SedangPOCells == {<<"0">>, <<"1">>}

MinOrderCells == {<<"5">>, <<"2", ",", "5">>, <<"0">>}

HPPCells == {<<"1", "0", "0", "0", "0">>, <<"0", ",", "1", "2", "5">>}

RawRows ==
    {(l :> st) @@ ("Daily Sales" :> ds) @@ ("Max. Daily Sales" :> mds)
        @@ ("Lead Time" :> lt) @@ ("Max. Lead Time" :> mlt) @@ ("Sedang PO" :> sp)
        @@ ("Min. Order" :> mo) @@ ("HPP" :> hpp) :
        l \in StockLabels, st \in StockCells, ds \in DailySalesCells,
        mds \in MaxDailySalesCells, lt \in LeadTimeCells, mlt \in MaxLeadTimeCells,
        sp \in SedangPOCells, mo \in MinOrderCells, hpp \in HPPCells}

\* lines 176-186 and 202-238: a missing numeric column is added as 0, every
\* numeric column is coerced, and the reference columns are added.
CleanPoData(raw) ==
    [c \in NumericColumns |->
        FromDec(CoerceColumn(<<IF c \in DOMAIN raw THEN raw[c] ELSE <<"0">> >>)[1])]
    @@ ("contribution_pct" :> R(100)) @@ ("contribution_ratio" :> R(1))
    @@ ("Lead Time Sedang PO" :> R(DefaultLeadTimeSedangPO)) @@ ("Is in Padang" :> Z)

\* line 373
StockCol(df) == IF "Stok" \in DOMAIN df THEN "Stok" ELSE "Stock"

\* lines 376-382: pd.to_numeric(...).fillna(0)
Numeric(df, c) == FillNa(df[c])

\* lines 386-387, before the cast
SafetyStockFloat(df) ==
    FillNa(Ceil(Sub(Mul(Numeric(df, "Max. Daily Sales"), Numeric(df, "Max. Lead Time")),
                    Mul(Numeric(df, "Daily Sales"), Numeric(df, "Lead Time")))))

\* line 390, before the cast
ReorderPointFloat(df) ==
    FillNa(Ceil(Add(Mul(Numeric(df, "Daily Sales"), Numeric(df, "Lead Time")),
                    AsInt(SafetyStockFloat(df)))))

\* line 393, before the cast
StockCover30Float(df) == FillNa(Ceil(Mul(Numeric(df, "Daily Sales"), R(CoverDays))))

\* verify_fix.py line 128: the notebook divides without a guard
CurrentStockDaysCoverUnguarded(stock, sales) == Div(stock, sales)

\* lines 396-400
CurrentStockDaysCover(stock, sales) ==
    IF Less(Z, sales) THEN Div(stock, sales) ELSE Z

\* verify_fix.py line 131: the notebook opens a PO at exactly 30 days too
IsOpenPoNotebook(cover, stock, rop) ==
    IF Leq(cover, R(CoverDays)) /\ Leq(stock, rop) THEN 1 ELSE 0

\* lines 403-406
IsOpenPo(cover, stock, rop) ==
    IF Less(cover, R(CoverDays)) /\ Leq(stock, rop) THEN 1 ELSE 0

\* an initial quantity that forgets the quantity already on order
InitialQtyIgnoresOnOrder(open, cover30, stock, sedang) ==
    ClipLower(IF open = 1 THEN Sub(cover30, stock) ELSE Z)

\* lines 409-411, before the cast
InitialQtyFloat(open, cover30, stock, sedang) ==
    ClipLower(IF open = 1 THEN Sub(Sub(cover30, stock), sedang) ELSE Z)

\* verify_fix.py line 143, "the original formula": the maximum lead time
\* whether or not a quantity is on order
EmergencyQtyOriginalFormula(sedang, leadSedang, maxLead, cover, sales) ==
    ClipLower(FillNa(ReplaceInf(Ceil(Mul(Sub(maxLead, cover), sales)))))

\* lines 414-420, before the cast
EmergencyQtyFloat(sedang, leadSedang, maxLead, cover, sales) ==
    ClipLower(FillNa(ReplaceInf(
        IF Less(Z, sedang)
        THEN Maximum0(Mul(Sub(leadSedang, cover), sales))
        ELSE Ceil(Mul(Sub(maxLead, cover), sales)))))

\* line 423
UpdatedRegularQty(initial, emergency) == AsInt(ClipLower(Sub(initial, emergency)))

\* lines 426-432
FinalRegularQty(updated, minOrder) ==
    AsInt(IF Less(Z, updated) /\ Less(updated, minOrder) THEN minOrder ELSE updated)

\* the floats handed to Series.astype(int), which raises on NaN and inf
CastInputs(df) ==
    LET stock == Numeric(df, StockCol(df))
        sales == Numeric(df, "Daily Sales")
        cover == CurrentStockDaysCover(stock, sales)
    IN {SafetyStockFloat(df), StockCover30Float(df)}
       \cup (IF Finite(SafetyStockFloat(df))
             THEN {ReorderPointFloat(df)} \cup
                  (IF Finite(ReorderPointFloat(df)) /\ Finite(StockCover30Float(df))
                   THEN {InitialQtyFloat(IsOpenPo(cover, stock, AsInt(ReorderPointFloat(df))),
                                         AsInt(StockCover30Float(df)), stock,
                                         Numeric(df, "Sedang PO"))}
                   ELSE {})
             ELSE {})

MetricsRaises(df) == \E x \in CastInputs(df) : ~Finite(x)

\* lines 368-438, when no cast raises
CalculateInventoryMetrics(df) ==
    LET stock == Numeric(df, StockCol(df))
        sales == Numeric(df, "Daily Sales")
        sedang == Numeric(df, "Sedang PO")
        hpp == Numeric(df, "HPP")
        safety == AsInt(SafetyStockFloat(df))
        rop == AsInt(ReorderPointFloat(df))
        cover30 == AsInt(StockCover30Float(df))
        cover == CurrentStockDaysCover(stock, sales)
        open == IsOpenPo(cover, stock, rop)
        initial == AsInt(InitialQtyFloat(open, cover30, stock, sedang))
        emergency == AsInt(EmergencyQtyFloat(sedang, Numeric(df, "Lead Time Sedang PO"),
                                             Numeric(df, "Max. Lead Time"), cover, sales))
        updated == UpdatedRegularQty(initial, emergency)
        final == FinalRegularQty(updated, df["Min. Order"])
        computed ==
            ("Safety stock" :> safety) @@ ("Reorder point" :> rop)
            @@ ("Stock cover 30 days" :> cover30)
            @@ ("current_stock_days_cover" :> cover) @@ ("is_open_po" :> R(open))
            @@ ("initial_qty_po" :> initial) @@ ("emergency_po_qty" :> emergency)
            @@ ("updated_regular_po_qty" :> updated)
            @@ ("final_updated_regular_po_qty" :> final)
            @@ ("emergency_po_cost" :> Round2(Mul(emergency, hpp)))
            @@ ("final_updated_regular_po_cost" :> Round2(Mul(final, hpp)))
        all == computed @@ [c \in DOMAIN df |-> IF c \in NumericColumns \ {"Min. Order"}
                                                   \/ c = "Lead Time Sedang PO"
                                                THEN Numeric(df, c) ELSE df[c]]
    IN [c \in DOMAIN all |-> FillNa(all[c])]

ComputedColumns ==
    {"Safety stock", "Reorder point", "Stock cover 30 days", "current_stock_days_cover",
     "is_open_po", "initial_qty_po", "emergency_po_qty", "updated_regular_po_qty",
     "final_updated_regular_po_qty", "emergency_po_cost", "final_updated_regular_po_cost"}

\* process_files line 543
JsonSafe(row) == [c \in DOMAIN row |-> FillNa(ReplaceInf(row[c]))]

\* process_files line 502
Clean ==
    /\ m_pc = "raw"
    /\ m_row' = CleanPoData(m_raw)
    /\ m_pc' = "clean"
    /\ UNCHANGED <<m_raw, m_out>>
    /\ UNCHANGED notRow

\* process_files line 511 (the supplier merge of line 508 leaves the numeric
\* columns as they are); a raised exception is caught at line 519
Metrics ==
    /\ m_pc = "clean"
    /\ IF MetricsRaises(m_row)
       THEN m_pc' = "raised" /\ UNCHANGED m_row
       ELSE m_pc' = "done" /\ m_row' = CalculateInventoryMetrics(m_row)
    /\ UNCHANGED <<m_raw, m_out>>
    /\ UNCHANGED notRow

\* process_files lines 528-549
Respond ==
    /\ m_pc = "done"
    /\ m_out' = JsonSafe(m_row)
    /\ m_pc' = "sent"
    /\ UNCHANGED <<m_raw, m_row>>
    /\ UNCHANGED notRow

RowIdle ==
    /\ m_pc = "idle"
    /\ m_raw = <<>>
    /\ m_row = <<>>
    /\ m_out = <<>>

RowInit ==
    /\ m_pc = "raw"
    /\ m_raw \in RawRows
    /\ m_row = <<>>
    /\ m_out = <<>>

RowNext == Clean \/ Metrics \/ Respond

(***************************************************************************)
(* Store names from file names: POProcessor.get_store_name_from_filename,  *)
(* used by process_files, and po_calculator.get_store_name_from_filename,  *)
(* used by RunService.create_run.  Texts are sequences of characters.      *)
(***************************************************************************)
IsSpace(c) == c = " "

\* str.lower() on one character
Lower(c) ==
    IF \E k \in DOMAIN UpperCase : UpperCase[k] = c
    THEN LowerCase[CHOOSE k \in DOMAIN UpperCase : UpperCase[k] = c]
    ELSE c

UpperText(t) == [k \in DOMAIN t |-> Upper(t[k])]

LowerText(t) == [k \in DOMAIN t |-> Lower(t[k])]

\* Path(filename).stem: the name up to its last dot, when that dot is
\* neither the first nor the last character
Stem(name) ==
    LET dots == {k \in DOMAIN name : name[k] = "."}
        last == CHOOSE k \in dots : \A j \in dots : j <= k
    IN IF dots # {} /\ last > 1 /\ last < Len(name) THEN SubSeq(name, 1, last - 1) ELSE name

\* str.strip()
RECURSIVE LStrip(_)
LStrip(t) == IF t # <<>> /\ IsSpace(Head(t)) THEN LStrip(Tail(t)) ELSE t

RECURSIVE RStrip(_)
RStrip(t) == IF t # <<>> /\ IsSpace(t[Len(t)]) THEN RStrip(SubSeq(t, 1, Len(t) - 1)) ELSE t

Strip(t) == LStrip(RStrip(t))

\* re.sub(r'^[\d\.\s]+', '', t)
RECURSIVE DropLeadingNumbering(_)
DropLeadingNumbering(t) ==
    IF t # <<>> /\ (IsDigit(Head(t)) \/ Head(t) = "." \/ IsSpace(Head(t)))
    THEN DropLeadingNumbering(Tail(t)) ELSE t

\* str.split(): the whitespace-delimited tokens
RECURSIVE Split(_)
Split(t) ==
    LET s == LStrip(t)
        ends == {k \in DOMAIN s : IsSpace(s[k])}
        stop == IF ends = {} THEN Len(s) + 1 ELSE CHOOSE k \in ends : \A j \in ends : k <= j
    IN IF s = <<>> THEN <<>>
       ELSE <<SubSeq(s, 1, stop - 1)>> \o Split(SubSeq(s, stop, Len(s)))

\* ' '.join(parts)
RECURSIVE Join(_)
Join(parts) ==
    IF parts = <<>> THEN <<>>
    ELSE IF Len(parts) = 1 THEN parts[1]
    ELSE parts[1] \o <<" ">> \o Join(Tail(parts))

Glam == <<"g", "l", "a", "m">>

\* the positions at which 'glam' starts, in any letter case
GlamAt(t) == {k \in 1..(Len(t) - 3) : LowerText(SubSeq(t, k, k + 3)) = Glam}

First(S) == CHOOSE k \in S : \A j \in S : k <= j

\* re.search(r'glam\s+(.+)', name, re.IGNORECASE): 'glam', one whitespace at
\* least, and one more character at least
GlamMatches(t) == {k \in GlamAt(t) : k + 5 <= Len(t) /\ IsSpace(t[k + 4])}

\* po_processor.py lines 48-72
GetStoreNameFromFilename(filename) ==
    LET name == Stem(filename)
        parts == Split(name)
        tokens == {k \in DOMAIN parts : LowerText(parts[k]) = Glam /\ k + 1 <= Len(parts)}
    IN IF GlamMatches(name) # {}
       THEN UpperText(Strip(DropLeadingNumbering(
                Strip(SubSeq(name, First(GlamMatches(name)) + 5, Len(name))))))
       ELSE IF tokens # {}
       THEN UpperText(Strip(Join(SubSeq(parts, First(tokens) + 1, Len(parts)))))
       ELSE UpperText(name)

Miss == <<"m", "i", "s", "s">>

\* po_calculator.py lines 190-198; a stem with no token makes name_parts[0]
\* raise IndexError
CalculatorGetStoreNameFromFilename(filename) ==
    LET name_parts == Split(Stem(filename))
        n == Len(name_parts)
    IN IF n >= 3 /\ LowerText(name_parts[2]) = Miss /\ LowerText(name_parts[3]) = Glam
       THEN UpperText(Strip(Join(SubSeq(name_parts, 4, n))))
       ELSE IF n >= 2 /\ LowerText(name_parts[1]) = Miss /\ LowerText(name_parts[2]) = Glam
       THEN UpperText(Strip(Join(SubSeq(name_parts, 3, n))))
       ELSE IF \E k \in DOMAIN filename : filename[k] = " "
       THEN UpperText(Strip(Join(SubSeq(name_parts, 2, n))))
       ELSE IF n = 0 THEN <<"IndexError">>
       ELSE UpperText(name_parts[1])

\* the file names drawn: numbering, brand words, store, extension
NamePrefixes == {<<>>, <<"1", ".">>, <<"1", ".", " ">>, <<"0", "1", " ">>, <<"2", "6", ".", " ">>}

NameKeywords == {<<"M", "i", "s", "s", " ", "g", "l", "a", "m", " ">>, <<"M", "i", "s", "s", " ", "G", "l", "a", "m", " ">>, <<"M", "I", "S", "S", " ", "G", "L", "A", "M", " ">>, <<"S", "t", "o", "r", "e", " ">>, <<>>}

NameStores == {<<"P", "a", "d", "a", "n", "g">>, <<"S", "o", "e", "t", "a">>, <<"d", "r", " ", "M", "a", "n", "s", "u", "r", " ">>, <<"M", "u", "a", "r", "o", " ", "b", "u", "n", "g", "o">>}

NameExtensions == {<<".", "x", "l", "s", "x">>, <<".", "c", "s", "v">>}

FileNames ==
    {p \o k \o s \o e : p \in NamePrefixes, k \in NameKeywords, s \in NameStores,
                        e \in NameExtensions}

\* process_files line 493
ProcessFilesLocation ==
    /\ sn_pc = "file"
    /\ sn_store' = GetStoreNameFromFilename(sn_file)
    /\ sn_pc' = "process_files"
    /\ UNCHANGED sn_file
    /\ UNCHANGED notName

\* RunService.create_run lines 46-50, for a store file given without a name
CreateRunStoreName ==
    /\ sn_pc = "file"
    /\ sn_store' = CalculatorGetStoreNameFromFilename(sn_file)
    /\ sn_pc' = "create_run"
    /\ UNCHANGED sn_file
    /\ UNCHANGED notName

NameIdle ==
    /\ sn_pc = "idle"
    /\ sn_file = <<>>
    /\ sn_store = <<>>

NameInit ==
    /\ sn_pc = "file"
    /\ sn_file \in FileNames
    /\ sn_store = <<>>

NameNext == ProcessFilesLocation \/ CreateRunStoreName

(***************************************************************************)
(* The reference files of a batch: load_supplier_data,                     *)
(* load_store_contribution and get_contribution_pct, in POProcessor (used  *)
(* by process_files) and in po_calculator (used by compute_outputs).       *)
(***************************************************************************)
DefaultContributionPct == 100

TableStores == {<<"P", "a", "d", "a", "n", "g">>, <<"P", "A", "D", "A", "N", "G">>, <<"s", "o", "e", "t", "a">>}

TablePcts == {60, 80}

TableEntries == [store : TableStores, contribution_pct : TablePcts]

\* a file that is not there, one pandas cannot load, or one with its rows
ContributionFiles ==
    [kind : {"missing", "malformed"}, rows : {<<>>}]
    \cup [kind : {"readable"}, rows : SeqsUpTo(TableEntries, MaxTable)]

SupplierFiles == {"missing", "malformed", "readable"}

Locations == {<<"P", "A", "D", "A", "N", "G">>, <<"S", "O", "E", "T", "A">>, <<"J", "A", "M", "B", "I">>}

\* po_processor.py lines 132-142: any exception gives the empty table
LoadStoreContribution(file) == IF file.kind = "readable" THEN file.rows ELSE <<>>

\* po_calculator.py lines 15-18 and 29-32: no handler around read_csv
CalculatorLoadRaises(supplier, contribution) ==
    supplier # "readable" \/ contribution.kind # "readable"

\* the rows whose store_lower equals location.lower()
ContribRows(location, store_contrib) ==
    {k \in DOMAIN store_contrib : LowerText(store_contrib[k].store) = LowerText(location)}

\* po_processor.py lines 144-154
GetContributionPct(location, store_contrib) ==
    IF store_contrib = <<>> THEN DefaultContributionPct
    ELSE IF ContribRows(location, store_contrib) # {}
    THEN store_contrib[First(ContribRows(location, store_contrib))].contribution_pct
    ELSE DefaultContributionPct

\* po_calculator.py lines 21-26
CalculatorGetContributionPct(location, store_contrib) ==
    IF ContribRows(location, store_contrib) # {}
    THEN store_contrib[First(ContribRows(location, store_contrib))].contribution_pct
    ELSE DefaultContributionPct

\* process_files lines 453-466
ProcessFilesLoad ==
    /\ rf_pc = "files"
    /\ rf_by' = "process_files"
    /\ rf_table' = LoadStoreContribution(rf_contrib)
    /\ rf_pc' = "loaded"
    /\ UNCHANGED <<rf_supplier, rf_contrib, rf_location, rf_pct>>
    /\ UNCHANGED notRef

\* compute_outputs lines 374-376
ComputeOutputsLoad ==
    /\ rf_pc = "files"
    /\ rf_by' = "compute_outputs"
    /\ IF CalculatorLoadRaises(rf_supplier, rf_contrib)
       THEN rf_pc' = "aborted" /\ UNCHANGED rf_table
       ELSE rf_pc' = "loaded" /\ rf_table' = rf_contrib.rows
    /\ UNCHANGED <<rf_supplier, rf_contrib, rf_location, rf_pct>>
    /\ UNCHANGED notRef

\* process_files line 494, process_po_file lines 342-346
LookupContribution ==
    /\ rf_pc = "loaded"
    /\ \E location \in Locations :
        /\ rf_location' = location
        /\ rf_pct' = IF rf_by = "process_files"
                     THEN GetContributionPct(location, rf_table)
                     ELSE CalculatorGetContributionPct(location, rf_table)
    /\ rf_pc' = "looked"
    /\ UNCHANGED <<rf_by, rf_supplier, rf_contrib, rf_table>>
    /\ UNCHANGED notRef

RefIdle ==
    /\ rf_pc = "idle"
    /\ rf_by = ""
    /\ rf_supplier = "missing"
    /\ rf_contrib = [kind |-> "missing", rows |-> <<>>]
    /\ rf_table = <<>>
    /\ rf_location = <<>>
    /\ rf_pct = 0

RefInit ==
    /\ rf_pc = "files"
    /\ rf_by = ""
    /\ rf_supplier \in SupplierFiles
    /\ rf_contrib \in ContributionFiles
    /\ rf_table = <<>>
    /\ rf_location = <<>>
    /\ rf_pct = 0

RefNext == ProcessFilesLoad \/ ComputeOutputsLoad \/ LookupContribution

(***************************************************************************)
(* The reference-store ("Padang") override of clean_po_data, on one row    *)
(* of a store file, in POProcessor (lines 240-306) and in po_calculator    *)
(* (lines 293-330).                                                        *)
(***************************************************************************)
ExemptStores == {"PADANG", "SOETA", "BALIKPAPAN"}

FullContribution == 100

OverrideStores == ExemptStores \cup {"JAMBI"}

OverridePcts == {100, 60}

SKUs == {"A", "B"}

StoreRows == [SKU : SKUs, DailySales : {R(1), R(0)}, MaxDailySales : {R(2)}]

PadangRows ==
    {[SKU |-> "A", DailySales |-> R(4), MaxDailySales |-> R(6)],
     [SKU |-> "A", DailySales |-> R(8), MaxDailySales |-> R(8)],
     [SKU |-> "B", DailySales |-> R(10), MaxDailySales |-> R(20)]}

\* padang_sales: None, or the rows of the reference file
PadangSales ==
    {[given |-> FALSE, rows |-> <<>>]}
    \cup [given : {TRUE}, rows : SeqsUpTo(PadangRows, MaxRef)]

\* po_processor.py lines 240-242
NeedsPadangOverride(location, contribution_pct) ==
    location \notin ExemptStores \/ contribution_pct < FullContribution

\* df.merge(padang_df[...], on='SKU', how='left') for one row: one output
\* row per reference row of that SKU, or one row with NaN when there is none
PadangMatches(row, padang) == SelectSeq(padang.rows, LAMBDA p : p.SKU = row.SKU)

\* an override that does not keep the original sales of a row outside the
\* reference table
OverriddenLosesOriginal(row, p, ratio, flag) ==
    [SKU |-> row.SKU,
     DailySales |-> IF flag = 1 THEN Mul(FillNa(p.DailySales), ratio) ELSE Z,
     MaxDailySales |-> IF flag = 1 THEN Mul(FillNa(p.MaxDailySales), ratio) ELSE Z,
     IsInPadang |-> flag]

Overridden(row, p, ratio, flag) ==
    [SKU |-> row.SKU,
     DailySales |-> IF flag = 1 THEN Mul(FillNa(p.DailySales), ratio) ELSE row.DailySales,
     MaxDailySales |-> IF flag = 1 THEN Mul(FillNa(p.MaxDailySales), ratio) ELSE row.MaxDailySales,
     IsInPadang |-> flag]

NoPadangRow == [DailySales |-> NaN, MaxDailySales |-> NaN]

\* the merge and the np.where of both implementations
MergePadang(row, padang, ratio) ==
    LET matches == PadangMatches(row, padang)
    IN IF matches = <<>> THEN <<Overridden(row, NoPadangRow, ratio, 0)>>
       ELSE [k \in DOMAIN matches |-> Overridden(row, matches[k], ratio, 1)]

KeptRow(row, flag) ==
    [SKU |-> row.SKU, DailySales |-> row.DailySales, MaxDailySales |-> row.MaxDailySales,
     IsInPadang |-> flag]

\* po_processor.py lines 232-306
OverrideOfProcessor(in) ==
    LET flag == IF in.padang_sales.given /\ PadangMatches(in.row, in.padang_sales) # <<>>
                THEN 1 ELSE 0
    IN IF ~NeedsPadangOverride(in.location, in.contribution_pct) THEN <<KeptRow(in.row, flag)>>
       ELSE IF ~in.padang_sales.given THEN <<KeptRow(in.row, flag)>>
       ELSE MergePadang(in.row, in.padang_sales, Norm(in.contribution_pct, 100))

\* po_calculator.py lines 286-330: no exemption
OverrideOfCalculator(in) ==
    IF ~in.padang_sales.given THEN <<KeptRow(in.row, 0)>>
    ELSE MergePadang(in.row, in.padang_sales, Norm(in.contribution_pct, 100))

OverrideInputs ==
    [location : OverrideStores, contribution_pct : OverridePcts, row : StoreRows,
     padang_sales : PadangSales]

\* process_files line 502
ProcessFilesClean ==
    /\ ov_pc = "in"
    /\ ov_out' = OverrideOfProcessor(ov_in)
    /\ ov_pc' = "process_files"
    /\ UNCHANGED ov_in
    /\ UNCHANGED notOv

\* process_po_file line 352
ProcessPoFileClean ==
    /\ ov_pc = "in"
    /\ ov_out' = OverrideOfCalculator(ov_in)
    /\ ov_pc' = "compute_outputs"
    /\ UNCHANGED ov_in
    /\ UNCHANGED notOv

OvIdle ==
    /\ ov_pc = "idle"
    /\ ov_in = <<>>
    /\ ov_out = <<>>

OvInit ==
    /\ ov_pc = "in"
    /\ ov_in \in OverrideInputs
    /\ ov_out = <<>>

OvNext == ProcessFilesClean \/ ProcessPoFileClean

(***************************************************************************)
(* The column selection and padding of clean_po_data, in POProcessor       *)
(* (lines 165-229) and in po_calculator (lines 243-284), on the set of     *)
(* columns the store file has.                                             *)
(***************************************************************************)
\* po_processor.py lines 165-169
RequiredColumns ==
    {"Brand", "SKU", "Nama", "Toko", "Stok", "Stock", "Daily Sales", "Max. Daily Sales",
     "Lead Time", "Max. Lead Time", "Min. Order", "Sedang PO", "HPP"}

\* po_processor.py line 180: added as '' when absent
CriticalColumns == {"Brand", "SKU", "HPP"}

\* po_processor.py line 183: added as 0 when absent
ZeroColumns ==
    {"Stok", "Stock", "Daily Sales", "Max. Daily Sales", "Lead Time", "Max. Lead Time",
     "Min. Order", "Sedang PO"}

\* po_calculator.py lines 243-256
CalculatorRequiredColumns ==
    {"Brand", "SKU", "Nama", "Toko", "Stok", "Daily Sales", "Max. Daily Sales", "Lead Time",
     "Max. Lead Time", "Min. Order", "Sedang PO", "HPP"}

\* what a column of the cleaned frame holds: the file's values, '' or 0
Padded(col) ==
    IF col \in CriticalColumns
    THEN IF col \in NumericColumns THEN "0" ELSE "''"   \* '' coerced to 0.0 (line 222)
    ELSE "0"

\* po_processor.py lines 172-229: never raises for a missing column
CleanColumnsOfProcessor(in) ==
    LET kept == (in.present \cap RequiredColumns) \cup CriticalColumns \cup ZeroColumns
    IN [outcome |-> "ok",
        columns |-> [col \in kept |-> IF col \in in.present THEN "file" ELSE Padded(col)]]

\* po_calculator.py lines 258-262 and 306-313: df["Brand"] and the merge on
\* "SKU" raise KeyError when the column is not there; nothing is added
CleanColumnsOfCalculator(in) ==
    LET kept == in.present \cap CalculatorRequiredColumns
    IN IF "Brand" \notin kept \/ (in.padang_given /\ "SKU" \notin kept)
       THEN [outcome |-> "KeyError", columns |-> <<>>]
       ELSE [outcome |-> "ok", columns |-> [col \in kept |-> "file"]]

\* an empty frame does not reach clean_po_data (process_files line 497)
ColumnInputs == [present : (SUBSET RequiredColumns) \ {{}}, padang_given : BOOLEAN]

\* process_files line 502
ProcessFilesColumns ==
    /\ col_pc = "in"
    /\ col_out' = CleanColumnsOfProcessor(col_in)
    /\ col_pc' = "process_files"
    /\ UNCHANGED col_in
    /\ UNCHANGED notCol

\* process_po_file line 352
ProcessPoFileColumns ==
    /\ col_pc = "in"
    /\ col_out' = CleanColumnsOfCalculator(col_in)
    /\ col_pc' = "compute_outputs"
    /\ UNCHANGED col_in
    /\ UNCHANGED notCol

ColIdle ==
    /\ col_pc = "idle"
    /\ col_in = <<>>
    /\ col_out = <<>>

ColInit ==
    /\ col_pc = "in"
    /\ col_in \in ColumnInputs
    /\ col_out = <<>>

ColNext == ProcessFilesColumns \/ ProcessPoFileColumns

(***************************************************************************)
(* merge_with_suppliers on the rows of one store file and a supplier       *)
(* catalog, in POProcessor (lines 314-366), in po_calculator (lines 35-77) *)
(* and in the notebook (verify_fix.py lines 391-458).  A supplier record   *)
(* is Nama Brand, Nama Store, ID Supplier (a number) and Nama Supplier     *)
(* (a text); a field of the merged frame holds a record's value, "NaN",    *)
(* "''" or "0".                                                            *)
(***************************************************************************)
PriorityStore == "Miss Glam Padang"

Brands == {"B1", "B2"}

SupplierStores == {PriorityStore, "Miss Glam Soeta"}

SupplierRecords ==
    {[NamaBrand |-> b, NamaStore |-> s, IDSupplier |-> i, NamaSupplier |-> "S" \o i] :
        b \in Brands, s \in SupplierStores, i \in {"1", "2"}}

Catalogs == SeqsUpTo(SupplierRecords, MaxCatalog)

\* the rows of df_clean; SKU is the position of the row in the file
OrderRows ==
    UNION {{[k \in 1..n |-> [SKU |-> k, Brand |-> f[k].Brand, Toko |-> f[k].Toko]] :
                f \in [1..n -> [Brand : Brands, Toko : SupplierStores]]} : n \in 1..MaxRows}

Unset == "NaN"

NoSupplier ==
    [NamaBrand |-> Unset, NamaStore |-> Unset, IDSupplier |-> Unset, NamaSupplier |-> Unset]

\* one row of a merged frame: the row's own columns and the supplier's
Joined(row, s) ==
    [SKU |-> row.SKU, Brand |-> row.Brand, Toko |-> row.Toko, supplier_columns |-> TRUE,
     NamaBrand |-> s.NamaBrand, NamaStore |-> s.NamaStore, IDSupplier |-> s.IDSupplier,
     NamaSupplier |-> s.NamaSupplier]

\* df_clean returned as it is: no supplier column
NotJoined(row) ==
    [SKU |-> row.SKU, Brand |-> row.Brand, Toko |-> row.Toko, supplier_columns |-> FALSE,
     NamaBrand |-> Unset, NamaStore |-> Unset, IDSupplier |-> Unset, NamaSupplier |-> Unset]

\* the join keys: Brand = Nama Brand, and in the notebook's primary merge
\* also Toko = Nama Store
KeysMatch(row, s, by_store) ==
    row.Brand = s.NamaBrand /\ (by_store => row.Toko = s.NamaStore)

\* pd.merge(..., how='left'): one output row per matching supplier record,
\* one row of NaN when there is none, in the order of the left frame
RECURSIVE LeftMerge(_, _, _)
LeftMerge(rows, suppliers, by_store) ==
    IF rows = <<>> THEN <<>>
    ELSE LET row == Head(rows)
             matches == SelectSeq(suppliers, LAMBDA s : KeysMatch(row, s, by_store))
         IN (IF matches = <<>> THEN <<Joined(row, NoSupplier)>>
             ELSE [k \in DOMAIN matches |-> Joined(row, matches[k])])
            \o LeftMerge(Tail(rows), suppliers, by_store)

\* drop_duplicates(subset=...): the first record of every key is kept
RECURSIVE DropDuplicates(_, _)
DropDuplicates(suppliers, by_store) ==
    IF suppliers = <<>> THEN <<>>
    ELSE LET before == DropDuplicates(SubSeq(suppliers, 1, Len(suppliers) - 1), by_store)
             last == suppliers[Len(suppliers)]
         IN IF \E k \in DOMAIN before :
                   /\ before[k].NamaBrand = last.NamaBrand
                   /\ by_store => before[k].NamaStore = last.NamaStore
            THEN before ELSE Append(before, last)

\* a fallback pass that takes every row for unmatched
IsNaAlways(row) == TRUE

\* merged_df['Nama Brand'].isna()
IsNa(row) == row.NamaBrand = Unset

\* po_processor.py lines 338-350, po_calculator.py lines 49-59
FillFromOthers(merged, other_suppliers) ==
    LET brands_needing_suppliers == {merged[k].Brand : k \in {j \in DOMAIN merged : IsNa(merged[j])}}
        first_supplier_per_brand == DropDuplicates(other_suppliers, FALSE)
    IN [k \in DOMAIN merged |->
           LET supplier_data == SelectSeq(first_supplier_per_brand,
                                          LAMBDA s : s.NamaBrand = merged[k].Brand)
           IN IF /\ merged[k].Brand \in brands_needing_suppliers
                 /\ supplier_data # <<>>
                 /\ IsNa(merged[k])
              THEN Joined(merged[k], supplier_data[1])
              ELSE merged[k]]

\* fillna('' if dtype == 'object' else 0) on the listed supplier columns;
\* 'Nama Brand' is not in the list.  ID Supplier is a number column unless
\* the catalog has no record (a header-only file reads as object columns)
FillNaSupplier(value, object_dtype) ==
    IF value # Unset THEN value ELSE IF object_dtype THEN "''" ELSE "0"

CleanUp(merged, catalog) ==
    [k \in DOMAIN merged |->
        [merged[k] EXCEPT !.NamaStore = FillNaSupplier(@, TRUE),
                          !.NamaSupplier = FillNaSupplier(@, TRUE),
                          !.IDSupplier = FillNaSupplier(@, catalog = <<>>)]]

PadangSuppliers(catalog) == SelectSeq(catalog, LAMBDA s : s.NamaStore = PriorityStore)

OtherSuppliers(catalog) == SelectSeq(catalog, LAMBDA s : s.NamaStore # PriorityStore)

\* po_calculator.py lines 35-77
CalculatorMergeWithSuppliers(rows, catalog) ==
    CleanUp(FillFromOthers(LeftMerge(rows, PadangSuppliers(catalog), FALSE),
                           OtherSuppliers(catalog)), catalog)

\* po_processor.py lines 314-366
MergeWithSuppliers(rows, catalog) ==
    IF catalog = <<>> THEN [k \in DOMAIN rows |-> NotJoined(rows[k])]
    ELSE CalculatorMergeWithSuppliers(rows, catalog)

\* verify_fix.py lines 391-458
NotebookMergeWithSuppliers(rows, catalog) ==
    LET supplier_clean == DropDuplicates(catalog, TRUE)
        merged == LeftMerge(rows, supplier_clean, TRUE)
        unmatched_rows == SelectSeq(merged, IsNa)
        fallback_suppliers == DropDuplicates(supplier_clean, FALSE)
        matched_fallback == LeftMerge(unmatched_rows, fallback_suppliers, FALSE)
        matched_initial == SelectSeq(merged, LAMBDA r : ~IsNa(r))
    IN CleanUp(IF unmatched_rows # <<>> THEN matched_initial \o matched_fallback ELSE merged,
               catalog)

\* process_files line 508
ProcessFilesMerge ==
    /\ sup_pc = "in"
    /\ sup_out' = MergeWithSuppliers(sup_in.rows, sup_in.catalog)
    /\ sup_pc' = "process_files"
    /\ UNCHANGED sup_in
    /\ UNCHANGED notSup

\* process_po_file line 356
ProcessPoFileMerge ==
    /\ sup_pc = "in"
    /\ sup_out' = CalculatorMergeWithSuppliers(sup_in.rows, sup_in.catalog)
    /\ sup_pc' = "compute_outputs"
    /\ UNCHANGED sup_in
    /\ UNCHANGED notSup

\* verify_fix.py line 391
NotebookMerge ==
    /\ sup_pc = "in"
    /\ sup_out' = NotebookMergeWithSuppliers(sup_in.rows, sup_in.catalog)
    /\ sup_pc' = "notebook"
    /\ UNCHANGED sup_in
    /\ UNCHANGED notSup

SupIdle ==
    /\ sup_pc = "idle"
    /\ sup_in = <<>>
    /\ sup_out = <<>>

SupInit ==
    /\ sup_pc = "in"
    /\ sup_in \in [rows : OrderRows, catalog : Catalogs]
    /\ sup_out = <<>>

SupNext == ProcessFilesMerge \/ ProcessPoFileMerge \/ NotebookMerge

(***************************************************************************)
(* The specifications.                                                     *)
(***************************************************************************)
BatchStart == BatchInit /\ RunIdle /\ ProcIdle /\ CellIdle /\ RowIdle /\ NameIdle /\ RefIdle /\ OvIdle /\ ColIdle /\ SupIdle

BatchStep == BatchNext

RunStart == RunInit /\ ProcIdle /\ CellIdle /\ RowIdle /\ NameIdle /\ RefIdle /\ OvIdle /\ ColIdle /\ SupIdle

RunStep == RunNext

ProcStart == ProcInit /\ batch = <<>> /\ BatchIdle /\ RunIdle /\ CellIdle /\ RowIdle /\ NameIdle /\ RefIdle /\ OvIdle /\ ColIdle /\ SupIdle

ProcStep == ProcNext

CellStart == CellInit /\ batch = <<>> /\ BatchIdle /\ RunIdle /\ ProcIdle /\ RowIdle /\ NameIdle /\ RefIdle /\ OvIdle /\ ColIdle /\ SupIdle

CellStep == CellNext

RowStart == RowInit /\ batch = <<>> /\ BatchIdle /\ RunIdle /\ ProcIdle /\ CellIdle /\ NameIdle /\ RefIdle /\ OvIdle /\ ColIdle /\ SupIdle

RowStep == RowNext

NameStart == NameInit /\ batch = <<>> /\ BatchIdle /\ RunIdle /\ ProcIdle /\ CellIdle /\ RowIdle /\ RefIdle /\ OvIdle /\ ColIdle /\ SupIdle

NameStep == NameNext

RefStart == RefInit /\ batch = <<>> /\ BatchIdle /\ RunIdle /\ ProcIdle /\ CellIdle /\ RowIdle /\ NameIdle /\ OvIdle /\ ColIdle /\ SupIdle

RefStep == RefNext

OvStart == OvInit /\ batch = <<>> /\ BatchIdle /\ RunIdle /\ ProcIdle /\ CellIdle /\ RowIdle /\ NameIdle /\ RefIdle /\ ColIdle /\ SupIdle

OvStep == OvNext

ColStart == ColInit /\ batch = <<>> /\ BatchIdle /\ RunIdle /\ ProcIdle /\ CellIdle /\ RowIdle /\ NameIdle /\ RefIdle /\ OvIdle /\ SupIdle

ColStep == ColNext

SupStart == SupInit /\ batch = <<>> /\ BatchIdle /\ RunIdle /\ ProcIdle /\ CellIdle /\ RowIdle /\ NameIdle /\ RefIdle /\ OvIdle /\ ColIdle

SupStep == SupNext

Init == BatchStart \/ RunStart \/ ProcStart \/ CellStart \/ RowStart \/ NameStart \/ RefStart \/ OvStart \/ ColStart \/ SupStart

Next == BatchStep \/ RunStep \/ ProcStep \/ CellStep \/ RowStep \/ NameStep \/ RefStep \/ OvStep \/ ColStep \/ SupStep

Spec == Init /\ [][Next]_vars

SpecBatch == BatchStart /\ [][BatchStep]_vars

SpecRun == RunStart /\ [][RunStep]_vars

\* A call that has passed the check is a thread inside execute: it goes on
\* to the end of the function.  Nothing obliges a caller to call.
RunFairness ==
    \A c \in Calls :
        WF_vars(ExecuteMarkRunning(c) \/ ExecutePrepare(c) \/ ExecuteStore(c) \/ ExecuteFinish(c))

SpecRunFair == RunStart /\ [][RunStep]_vars /\ RunFairness

SpecProc == ProcStart /\ [][ProcStep]_vars

SpecCoerce == CellStart /\ [][CellStep]_vars

SpecMetrics == RowStart /\ [][RowStep]_vars

SpecNames == NameStart /\ [][NameStep]_vars

SpecRefs == RefStart /\ [][RefStep]_vars

SpecOverride == OvStart /\ [][OvStep]_vars

SpecColumns == ColStart /\ [][ColStep]_vars

SpecSuppliers == SupStart /\ [][SupStep]_vars

(***************************************************************************)
(* Claims about the batch operations.                                      *)
(***************************************************************************)
FailedFiles == {i \in DOMAIN batch : batch[i].fate \in FailFates}

OkFiles == {i \in DOMAIN batch : batch[i].fate = "ok"}

RowsOf(i, data) == {k \in DOMAIN data : data[k].source = FileName(i)}

\* process_files isolates the failure of a file: once it has returned, every
\* failed file has its error recorded under its name and no row in the
\* combined result, and every good file has all its rows there.
PFIsolates ==
    pf_result # NoResult =>
        /\ \A i \in FailedFiles :
              /\ ErrorString(i, ErrorText(batch[i].fate)) \in Range(errors)
              /\ RowsOf(i, pf_result.data) = {}
        /\ \A i \in OkFiles : Cardinality(RowsOf(i, pf_result.data)) = batch[i].rows

\* The same of compute_outputs, for a batch of good files and files that fail
\* in one of the four stages: once it has ended, by return or by raise, the
\* rows of every good file are in what it produced.
COIsolates ==
    (co_result # NoResult /\ \A i \in DOMAIN batch : batch[i].fate \in FailFates \cup {"ok"}) =>
        /\ \A i \in FailedFiles : RowsOf(i, co_result.data) = {}
        /\ \A i \in OkFiles : Cardinality(RowsOf(i, co_result.data)) = batch[i].rows

\* C1: in a batch, the error of one file is recorded against that file, the
\* file contributes no rows, and every other file is still processed and its
\* rows are in the combined result, for process_files and compute_outputs.
C1_FailureIsolatedPerFile == PFIsolates /\ COIsolates

\* C2: when no file of the batch is processed successfully, process_files
\* reports status error with a message holding the error of every failed
\* file (which the route answers with code 500); it never reports success
\* with an empty combined result.
C2_AllFailedIsError ==
    pf_result # NoResult =>
        /\ OkFiles = {} =>
              /\ pf_result.status = "error"
              /\ ProcessPoResponse(pf_result).code = 500
              /\ \A i \in FailedFiles :
                    ErrorString(i, ErrorText(batch[i].fate))
                        \in Range(ProcessPoResponse(pf_result).message)
        /\ pf_result.status = "success" => pf_result.data # <<>>

\* A batch of two failed files and no good one, after process_files returned.
C2_Witness ==
    /\ pf_result # NoResult
    /\ OkFiles = {}
    /\ Cardinality(FailedFiles) >= 2

(***************************************************************************)
(* Claims about the run's lifecycle.                                       *)
(***************************************************************************)
Lifecycle == {<<"pending", "running">>, <<"running", "ready">>, <<"running", "failed">>}

\* C3: over any sequence of execute calls the run's status changes only along
\* pending -> running, running -> ready and running -> failed; a ready or
\* failed run is never moved back to running.
C3_StatusFollowsLifecycle ==
    [][run_status' # run_status => <<run_status, run_status'>> \in Lifecycle]_vars

DriveErrors == {"credentials file cannot be loaded", "Google Drive upload failed"}

\* C4: a failure of the remote-storage client, be it unavailable or its upload
\* raising, never makes the run fail, and the records stored while the client
\* is unavailable carry no link.
C4_DriveFailureNeverFailsRun ==
    /\ \A c \in DOMAIN exec : exec[c].pc = "raised" => exec[c].exc \notin DriveErrors
    /\ drive # "configured" =>
          \A k \in DOMAIN results : results[k].drive_url = "none"

(***************************************************************************)
(* Claims about concurrent /process requests.                              *)
(***************************************************************************)
InFlight(r) == r \in DOMAIN req /\ req[r].pc # "done"

\* C5: for any interleaving of two /process requests no file has two
\* concurrent writers, that is two requests in flight that both wrote it (the
\* saved reference files, the uploaded store files, result.csv), so the result
\* of each request is computed from the bytes of its own inputs only.
C5_NoSharedWriters ==
    /\ \A p \in Paths : Cardinality({r \in writers[p] : InFlight(r)}) <= 1
    /\ \A r \in DOMAIN req : \A u \in req[r].used : u[2] = r

(***************************************************************************)
(* Claims about the numeric coercion.                                      *)
(***************************************************************************)
\* C6: the coercion is idempotent: coercing the textual form of a coerced
\* value yields the same number, for every input text.
C6_CoercionIdempotent ==
    cell_pc = "again" => cell_again = cell_values

\* C7: after normalization every quantity and cost field is a finite number
\* greater than or equal to zero, for any input cell text.
C7_NormalizedNonNegative ==
    cell_pc # "idle" => \A k \in DOMAIN cell_values : cell_values[k].m >= 0

(***************************************************************************)
(* Claims about the metrics engine.  They are read on the row that         *)
(* calculate_inventory_metrics returned.                                   *)
(***************************************************************************)
MetricsDone == m_pc \in {"done", "sent"}

\* the stock quantity the engine used
UsedStock == m_row[StockCol(m_row)]

\* C8: for every row of the metrics engine the final regular PO quantity is
\* >= 0, the emergency PO quantity is >= 0, and when the regular PO quantity
\* before the minimum r has 0 < r < MinOrder the final one is >= MinOrder.
C8_QuantitiesNonNegativeAndMinOrder ==
    MetricsDone =>
        /\ Leq(Z, m_row["final_updated_regular_po_qty"])
        /\ Leq(Z, m_row["emergency_po_qty"])
        /\ (Less(Z, m_row["updated_regular_po_qty"])
              /\ Less(m_row["updated_regular_po_qty"], m_row["Min. Order"]))
            => Leq(m_row["Min. Order"], m_row["final_updated_regular_po_qty"])

C10_ZeroSalesZeroCoverAllFinite ==
    /\ MetricsDone =>
          /\ m_row["Daily Sales"] = Z => m_row["current_stock_days_cover"] = Z
          /\ \A c \in ComputedColumns : Finite(m_row[c])
    /\ m_pc = "sent" => \A c \in DOMAIN m_out : Finite(m_out[c])

\* a row with stock on hand and no sales, through to the response
C10_Witness ==
    /\ m_pc = "sent"
    /\ m_row["Daily Sales"] = Z
    /\ Less(Z, UsedStock)
    /\ m_out["current_stock_days_cover"] = Z

\* the row of the end-to-end scenario, with its stock under the label l
ScenarioRow(l) ==
    (l :> <<"1", "0">>) @@ ("Daily Sales" :> <<"1">>) @@ ("Max. Daily Sales" :> <<"2">>)
    @@ ("Lead Time" :> <<"5">>) @@ ("Max. Lead Time" :> <<"1", "0">>)
    @@ ("Sedang PO" :> <<"0">>) @@ ("Min. Order" :> <<"5">>)
    @@ ("HPP" :> <<"1", "0", "0", "0", "0">>)

\* C13: normalization and the metrics engine on the row Stock=10, Daily
\* Sales=1, Max. Daily Sales=2, Lead Time=5, Max. Lead Time=10, Sedang PO=0,
\* Min. Order=5, HPP=10000 give Safety stock 15, Reorder point 20, Stock
\* cover 30 days 30, days of cover 10, Open-PO 1, initial quantity 20,
\* emergency quantity 0, regular and final regular quantity 20, emergency
\* cost 0 and final regular cost 200000.
C13_EndToEndScenario ==
    (MetricsDone /\ \E l \in StockLabels : m_raw = ScenarioRow(l)) =>
        /\ m_row["Safety stock"] = R(15)
        /\ m_row["Reorder point"] = R(20)
        /\ m_row["Stock cover 30 days"] = R(30)
        /\ m_row["current_stock_days_cover"] = R(10)
        /\ m_row["is_open_po"] = R(1)
        /\ m_row["initial_qty_po"] = R(20)
        /\ m_row["emergency_po_qty"] = R(0)
        /\ m_row["updated_regular_po_qty"] = R(20)
        /\ m_row["final_updated_regular_po_qty"] = R(20)
        /\ m_row["emergency_po_cost"] = R(0)
        /\ m_row["final_updated_regular_po_cost"] = R(200000)

\* the stock the input carries, under whichever of the two labels it has
InputStock ==
    FromDec(CoerceColumn(<<m_raw[CHOOSE l \in StockLabels : l \in DOMAIN m_raw]>>)[1])

\* C14: for an input with exactly one of the columns Stok and Stock, the
\* stock every metric uses (days of cover, Open-PO flag, initial quantity)
\* is the value of the column that is present, whichever label it carries.
C14_StockSynonyms ==
    MetricsDone =>
        LET sales == m_row["Daily Sales"]
            open == IsOpenPo(CurrentStockDaysCover(InputStock, sales), InputStock,
                             m_row["Reorder point"])
        IN /\ UsedStock = InputStock
           /\ m_row["current_stock_days_cover"] = CurrentStockDaysCover(InputStock, sales)
           /\ m_row["is_open_po"] = R(open)
           /\ m_row["initial_qty_po"]
                = AsInt(InitialQtyFloat(open, m_row["Stock cover 30 days"], InputStock,
                                        m_row["Sedang PO"]))

(***************************************************************************)
(* Claims about the store name of a file.                                  *)
(***************************************************************************)
\* the store name the rule gives for a stem
ExpectedStoreName(stem) ==
    IF GlamAt(stem) # {}
    THEN UpperText(Strip(DropLeadingNumbering(SubSeq(stem, First(GlamAt(stem)) + 4, Len(stem)))))
    ELSE IF \E k \in DOMAIN stem : IsSpace(stem[k])
    THEN UpperText(Join(Tail(Split(stem))))
    ELSE UpperText(stem)

\* C18: for every file name, both extractors give: with the keyword 'glam'
\* (any letter case) in the stem, the text after it without leading digits,
\* dots and spaces, trimmed and upper-cased; without the keyword, the stem
\* without its first whitespace-delimited token, or the whole stem when it
\* has no whitespace, upper-cased.
C18_StoreNameFromFilename ==
    sn_pc \in {"process_files", "create_run"} => sn_store = ExpectedStoreName(Stem(sn_file))

(***************************************************************************)
(* Claims about the reference files.                                       *)
(***************************************************************************)
\* the rows of the contribution file, none when it is missing or unreadable
FileRows == IF rf_contrib.kind = "readable" THEN rf_contrib.rows ELSE <<>>

SameIgnoringCase(a, b) == LowerText(a) = LowerText(b)

LookupIsRight ==
    rf_pc = "looked" =>
        \/ \E k \in DOMAIN FileRows :
            /\ SameIgnoringCase(FileRows[k].store, rf_location)
            /\ rf_pct = FileRows[k].contribution_pct
        \/ /\ \A k \in DOMAIN FileRows : ~SameIgnoringCase(FileRows[k].store, rf_location)
           /\ rf_pct = 100

LoadNeverAborts == rf_pc # "aborted"

\* C17: the contribution lookup returns the percentage of the table entry
\* whose store name equals the given one ignoring letter case, and 100 when
\* the table is empty, missing, unreadable or has no entry for the store; a
\* missing or malformed contribution or supplier file never aborts the batch.
C17_ContributionLookupAndGracefulLoad == LookupIsRight /\ LoadNeverAborts

(***************************************************************************)
(* Claims about the reference-store override.                              *)
(***************************************************************************)
OverrideDone == ov_pc \in {"process_files", "compute_outputs"}

\* the rule of the claim
RuleApplies == ov_in.location \notin {"PADANG", "SOETA", "BALIKPAPAN"} \/ ov_in.contribution_pct < 100

\* the reference rows of the input row's SKU
ReferenceOfRow == {k \in DOMAIN ov_in.padang_sales.rows : ov_in.padang_sales.rows[k].SKU = ov_in.row.SKU}

\* C12: the reference-store override is applied to a store's rows if and
\* only if the store is not in {PADANG, SOETA, BALIKPAPAN} or its
\* contribution is below 100: PADANG with 100 keeps the Daily Sales of every
\* row, reference-flagged or not; PADANG with 60 gets the override.
C12_OverrideExemption ==
    OverrideDone =>
        /\ ~RuleApplies =>
            \A k \in DOMAIN ov_out :
                /\ ov_out[k].DailySales = ov_in.row.DailySales
                /\ ov_out[k].MaxDailySales = ov_in.row.MaxDailySales
        /\ (RuleApplies /\ ReferenceOfRow # {}) =>
            \A k \in DOMAIN ov_out :
                \E j \in ReferenceOfRow :
                    ov_out[k].DailySales
                        = Mul(ov_in.padang_sales.rows[j].DailySales, Norm(ov_in.contribution_pct, 100))

(***************************************************************************)
(* Claims about missing columns.                                           *)
(***************************************************************************)
ColumnsDone == col_pc \in {"process_files", "compute_outputs"}

MissingColumns == RequiredColumns \ col_in.present

\* C15: normalization fails (MissingRequiredColumn) when Brand, SKU or HPP
\* is missing from the input, and does not fail when only other columns are
\* missing.
C15_FailsOnlyForCriticalColumns ==
    ColumnsDone =>
        (col_out.outcome # "ok" <=> MissingColumns \cap {"Brand", "SKU", "HPP"} # {})

NumericNonCritical ==
    {"Daily Sales", "Max. Daily Sales", "Lead Time", "Max. Lead Time", "Min. Order", "Sedang PO"}

TextNonCritical == {"Nama", "Toko"}

Reads(col, value) == col \in DOMAIN col_out.columns /\ col_out.columns[col] = value

\* C16: a non-critical column absent from the input is still present after
\* normalization: the numeric ones (stock, Daily Sales, Max. Daily Sales,
\* Lead Time, Max. Lead Time, Min. Order, Sedang PO) read 0, the text ones
\* (Nama, Toko) read ''.
C16_AbsentColumnsDefaulted ==
    (ColumnsDone /\ col_out.outcome = "ok") =>
        /\ \A col \in NumericNonCritical \cap MissingColumns : Reads(col, "0")
        /\ {"Stok", "Stock"} \subseteq MissingColumns => (Reads("Stok", "0") \/ Reads("Stock", "0"))
        /\ \A col \in TextNonCritical \cap MissingColumns : Reads(col, "''")

(***************************************************************************)
(* Claims about supplier resolution.                                       *)
(***************************************************************************)
ResolveDone == sup_pc \in {"process_files", "compute_outputs", "notebook"}

\* the records of the catalog that match a row in the primary pass: the
\* priority store's records of the row's brand, and in the notebook the
\* records of the row's brand and store
PrimaryRecords(row) ==
    {k \in DOMAIN sup_in.catalog :
        /\ sup_in.catalog[k].NamaBrand = row.Brand
        /\ sup_in.catalog[k].NamaStore = (IF sup_pc = "notebook" THEN row.Toko ELSE "Miss Glam Padang")}

BrandRecords(row) == {k \in DOMAIN sup_in.catalog : sup_in.catalog[k].NamaBrand = row.Brand}

CarriesRecord(row, s) ==
    /\ row.NamaBrand = s.NamaBrand
    /\ row.NamaStore = s.NamaStore
    /\ row.IDSupplier = s.IDSupplier
    /\ row.NamaSupplier = s.NamaSupplier

\* C11: a row that matches a priority supplier in the primary pass keeps
\* that supplier's fields; the fallback pass never overwrites a supplier
\* field of a row matched in the primary pass.
C11_PriorityMatchKept ==
    ResolveDone =>
        \A k \in DOMAIN sup_out :
            (sup_out[k].supplier_columns /\ PrimaryRecords(sup_out[k]) # {}) =>
                \E j \in PrimaryRecords(sup_out[k]) : CarriesRecord(sup_out[k], sup_in.catalog[j])

\* a row matched in the primary pass whose brand has another supplier with
\* another identity, next to a row the primary pass left unmatched (so the
\* fallback pass ran)
C11_Witness ==
    /\ ResolveDone
    /\ \E k \in DOMAIN sup_out :
          /\ PrimaryRecords(sup_out[k]) # {}
          /\ \E j \in BrandRecords(sup_out[k]) \ PrimaryRecords(sup_out[k]) :
                sup_in.catalog[j].IDSupplier # sup_out[k].IDSupplier
    /\ \E k \in DOMAIN sup_out :
          /\ sup_out[k].supplier_columns
          /\ PrimaryRecords(sup_out[k]) = {}

OriginalColumnsKept(row) ==
    /\ row.SKU \in DOMAIN sup_in.rows
    /\ row.Brand = sup_in.rows[row.SKU].Brand
    /\ row.Toko = sup_in.rows[row.SKU].Toko

\* C19: supplier resolution never fails, whatever the rows and the catalog
\* (an empty catalog included), and a row that matches no supplier is
\* passed through with its original columns and with every supplier field
\* present, '' for a text field and 0 for a numeric field.
C19_UnmatchedRowsPassThrough ==
    sup_pc \in {"process_files", "compute_outputs"} =>
        /\ \A i \in DOMAIN sup_in.rows : \E k \in DOMAIN sup_out : sup_out[k].SKU = i
        /\ \A k \in DOMAIN sup_out :
              /\ OriginalColumnsKept(sup_out[k])
              /\ BrandRecords(sup_out[k]) = {} =>
                    /\ sup_out[k].supplier_columns
                    /\ sup_out[k].NamaStore = "''"
                    /\ sup_out[k].NamaSupplier = "''"
                    /\ sup_out[k].IDSupplier = "0"

\* C20: supplier resolution returns exactly one output row for each input
\* row, with the fields of at most one supplier record: the number of rows
\* is unchanged.
C20_OneOutputRowPerInputRow ==
    ResolveDone =>
        /\ Len(sup_out) = Len(sup_in.rows)
        /\ \A i \in DOMAIN sup_in.rows :
              Cardinality({k \in DOMAIN sup_out : sup_out[k].SKU = i}) = 1
        /\ \A k \in DOMAIN sup_out :
              \/ sup_out[k].NamaBrand = "NaN"
              \/ \E j \in DOMAIN sup_in.catalog : CarriesRecord(sup_out[k], sup_in.catalog[j])

(***************************************************************************)
(* Claims about the result records of a run and about concurrent execute   *)
(* calls.                                                                  *)
(***************************************************************************)
RecordsOf(i, v) ==
    {k \in DOMAIN results :
        results[k].store_name = StoreName(i) /\ results[k].variant = Variants[v]}

\* C21: whenever the run is ready, its recorded results hold exactly one
\* record for each (store upload, variant), variant in complete, m2,
\* emergency, after any sequence of execute calls.
C21_OneRecordPerStoreAndVariant ==
    run_status = "ready" =>
        \A i \in DOMAIN batch : \A v \in DOMAIN Variants : Cardinality(RecordsOf(i, v)) = 1

(***************************************************************************)
(* Claims about the formulas of the metrics engine.                        *)
(***************************************************************************)
IsInteger(x) == Finite(x) /\ x.d = 1

EmergencyFormula ==
    LET ds == m_row["Daily Sales"]
        cover == m_row["current_stock_days_cover"]
        short(lead) == Mul(Sub(lead, cover), ds)
        max0(x) == IF Less(Z, x) THEN x ELSE Z
    IN IF Less(Z, m_row["Sedang PO"])
       THEN max0(short(R(5)))
       ELSE Ceil(max0(short(m_row["Max. Lead Time"])))

CellAlone(cell) ==
    IF ParsesAsFloat(CleanText(cell)) THEN ParseFloat(CleanText(cell)) ELSE Zero

\* C24: numeric coercion works cell by cell: a cell whose cleaned text does
\* not parse as a number (1.234,56 for one) becomes 0, and every other cell
\* of the column has the value it would have had if that cell had been 0.
C24_CoercionCellByCell ==
    cell_pc \in {"coerced", "again"} =>
        \A k \in DOMAIN cell_column : cell_values[k] = CellAlone(cell_column[k])

(***************************************************************************)
(* Claims about the rows the reference-store override returns.             *)
(***************************************************************************)
ContributionRatio == Norm(ov_in.contribution_pct, 100)

KeepsSales(out) ==
    /\ out.DailySales = ov_in.row.DailySales
    /\ out.MaxDailySales = ov_in.row.MaxDailySales

\* C25: when the override applies, a row whose SKU is in the reference
\* table gets Daily Sales = reference daily sales * contribution_pct / 100
\* and Max. Daily Sales = reference max daily sales * contribution_pct /
\* 100, and a row whose SKU is not in the table keeps the sales it had;
\* without a reference table no row's sales change.
C25_OverrideFrame ==
    OverrideDone =>
        /\ (RuleApplies /\ ov_in.padang_sales.given) =>
              \A k \in DOMAIN ov_out :
                  IF ReferenceOfRow # {}
                  THEN \E j \in ReferenceOfRow :
                          /\ ov_out[k].DailySales
                               = Mul(ov_in.padang_sales.rows[j].DailySales, ContributionRatio)
                          /\ ov_out[k].MaxDailySales
                               = Mul(ov_in.padang_sales.rows[j].MaxDailySales, ContributionRatio)
                  ELSE KeepsSales(ov_out[k])
        /\ ~ov_in.padang_sales.given =>
              /\ ov_out # <<>>
              /\ \A k \in DOMAIN ov_out : KeepsSales(ov_out[k])

\* store JAMBI at 60 percent with a row of SKU B, on a table that lists B
\* with daily sales 10 and 20: the row gets 6 and 12
C25_Witness ==
    /\ OverrideDone
    /\ ov_in.location = "JAMBI"
    /\ ov_in.contribution_pct = 60
    /\ ov_in.row.SKU = "B"
    /\ ReferenceOfRow # {}
    /\ \E k \in DOMAIN ov_out :
          ov_out[k].DailySales = R(6) /\ ov_out[k].MaxDailySales = R(12)

\* C30: normalization returns exactly one row per input row, in the input
\* order, for any reference-sales table, one that lists the same SKU more
\* than once included.
C30_OneRowPerInputRow ==
    OverrideDone =>
        /\ Len(ov_out) = 1
        /\ \A k \in DOMAIN ov_out : ov_out[k].SKU = ov_in.row.SKU

(***************************************************************************)
(* Claims about the contribution file of a /process request.               *)
(***************************************************************************)
\* The percentage the contribution file uploaded by request w lists for
\* every store of that request; never the default.
UploadedPct(w) == 50 + 10 * w

\* process_files lines 458-464 and 494: store_contrib is the empty table
\* unless 'store_contribution.csv' is one of `filenames`, and the lookup in
\* an empty table gives the default.  `used` holds the files read.
RowContributionPct(r) ==
    IF \E w \in Reqs : <<ContribPath, w>> \in req[r].used
    THEN UploadedPct(CHOOSE w \in Reqs : <<ContribPath, w>> \in req[r].used)
    ELSE DefaultContributionPct

\* C26: when a /process request supplies a contribution file that lists
\* store S with percentage p, every output row of S's file in that request
\* carries contribution_pct = p; the default of 100 is used only for stores
\* the supplied table does not list.
C26_SuppliedContributionIsUsed ==
    \A r \in DOMAIN req :
        (req[r].pc = "done" /\ req[r].up.contribution_file) =>
            RowContributionPct(r) = UploadedPct(r)

(***************************************************************************)
(* Claims about concurrent and failing execute calls.                      *)
(***************************************************************************)
\* the calls that have switched the run to running and not yet ended
InPipeline == {c \in DOMAIN exec : exec[c].pc \in {"started", "saving"}}

\* C27: for any interleaving of concurrent execute calls on one run, at most
\* one of them runs the pipeline; the status check and the switch to running
\* never both succeed for two callers.
C27_AtMostOneCallRunsThePipeline == Cardinality(InPipeline) <= 1

Passed(c) == exec[c].pc \in {"checked", "started", "saving"}

Ended(c) == exec[c].pc \in {"done", "raised"}

\* the step by which call c ends leaves the run ready when it returns and
\* failed, with the message in the note, when it raises
EndsRight(c) ==
    (Passed(c) /\ Ended(c)') =>
        /\ exec[c].pc' = "done" => run_status' = "ready"
        /\ exec[c].pc' = "raised" =>
              run_status' = "failed" /\ run_note' = "Run failed: " \o exec[c].exc'

\* once no call is still inside execute, a run some call has worked on is
\* not running
NoneLeftRunning ==
    ((\E c \in DOMAIN exec : Ended(c)) /\ (\A c \in DOMAIN exec : ~Passed(c)))
        => run_status \in {"ready", "failed"}

\* C28: every execute call that passes the 'already in progress' check
\* eventually ends, with the run ready when it returns and failed, the
\* failure message in the note, when it raises; no ended call leaves the
\* run in status running.
C28_PassedCallEndsReadyOrFailed ==
    /\ [][\A c \in Calls : EndsRight(c)]_vars
    /\ []NoneLeftRunning
    /\ \A c \in Calls : (exec[c].pc = "checked") ~> Ended(c)

\* one call has returned and a later one has raised on a Drive upload: the
\* run is failed with that message
C28_Witness ==
    /\ \E c \in DOMAIN exec : exec[c].pc = "done"
    /\ \E c \in DOMAIN exec :
          /\ exec[c].pc = "raised"
          /\ exec[c].exc = "Google Drive upload failed"
          /\ run_note = "Run failed: " \o exec[c].exc
    /\ run_status = "failed"

\* the step by which call c ends in failure stores nothing
FailureStoresNothing(c) ==
    (Passed(c) /\ exec[c].pc' = "raised") => results' = results

\* C29: an execute call that ends with the run failed stores no result
\* record: the stored records are the same after the failed call as before
\* it, even when the failure comes after some variants were written.
C29_FailedCallStoresNoRecord == [][\A c \in Calls : FailureStoresNothing(c)]_vars

====
